---- MODULE Spec2Model ----
(***************************************************************************)
(* A model of the pyrtest FHIR conformance harness: the HTTP resource      *)
(* client (src/utils/fhir_client.py), the cleanup / isolation layer        *)
(* (src/conftest.py) and the scenarios of src/tests, run against a FHIR    *)
(* server.  The server is not part of the repository; its behaviour is     *)
(* modelled from the contract of spec.md (sections 3, 6 and 7) and every   *)
(* definition that does so is named Srv...                                 *)
(***************************************************************************)
EXTENDS Integers, Sequences, FiniteSets, TLC

(***************************************************************************)
(* Bounds of the model.                                                    *)
(***************************************************************************)
MaxRes == 3
MaxOps == 2
MaxTests == 2

\* A missing id: None from dict.get('id'), or a URL without an id segment.
NoId == 0
\* A request without a version segment or an If-Match header.
NoVersion == 0

Ids == 1..MaxRes
Types == {"Patient", "Observation"}
Keys == Types \X Ids

(***************************************************************************)
(* Text values (family names, given names, query values) are sequences of  *)
(* pieces, so that one can be the beginning of another:                    *)
(* <<"TransactionTest", "1">> is "TransactionTest1".                       *)
(***************************************************************************)
StartsWith(s, v) == Len(v) <= Len(s) /\ SubSeq(s, 1, Len(v)) = v

(***************************************************************************)
(* Resources the scenarios submit.  A payload keeps the fields the         *)
(* scenarios search on (name.family), compare (name.given) and the server  *)
(* validates (valid = FALSE for a payload with a field of the wrong type). *)
(***************************************************************************)
Payload(t, family, given, valid) ==
  [resourceType |-> t, family |-> family, given |-> given, valid |-> valid]

patientV1 == Payload("Patient", <<"OrderTest">>, <<"V1">>, TRUE)
patientV2 == Payload("Patient", <<"OrderTest">>, <<"V2">>, TRUE)
rollbackPatient == Payload("Patient", <<"RollbackTest">>, <<"V1">>, TRUE)
transactionPatient == Payload("Patient", <<"TransactionTest", "1">>, <<"V1">>, TRUE)
transactionPatient2 == Payload("Patient", <<"TransactionTest", "2">>, <<"V1">>, TRUE)
observation == Payload("Observation", <<>>, <<"V1">>, TRUE)
invalidPatient == Payload("Patient", <<"ShouldFail">>, <<"V1">>, FALSE)

(***************************************************************************)
(* JSON values with their types: a value knows whether it is a   *)
(* mapping, a sequence, a string or a number.                              *)
(***************************************************************************)
Dict(map) == [kind |-> "dict", map |-> map]
List(elems) == [kind |-> "list", elems |-> elems]
Str(str_) == [kind |-> "str", str |-> str_]
Num(int_) == [kind |-> "int", int |-> int_]
\* A body that is no JSON: response.json() raises.
NotJson == [kind |-> "none"]

\* Variant of generate_invalid_patient: the Patient with the wrong type of
\* birthDate has the invalid gender as well.
generate_doubly_invalid_patient(issue) ==
  CASE issue = "missing_required" ->
         [family |-> <<"Test">>, given |-> <<"V1">>, valid |-> FALSE]
    [] issue \in {"invalid_type", "invalid_value"} ->
         [resourceType |-> "Patient", family |-> <<>>, given |-> <<>>, valid |-> FALSE,
          birthDate |-> Num(12345), gender |-> Str("invalid_gender_value")]
    [] OTHER -> [valid |-> FALSE]

\* resource_generators.py, lines 225-252: invalid_type and invalid_value give
\* a Patient the server rejects; missing_required gives a resource with a
\* name and no resourceType; any other issue gives the empty resource.
generate_invalid_patient(issue) ==
  CASE issue = "missing_required" ->
         [family |-> <<"Test">>, given |-> <<"V1">>, valid |-> FALSE]
    [] issue = "invalid_type" ->
         [resourceType |-> "Patient", family |-> <<>>, given |-> <<>>, valid |-> FALSE,
          birthDate |-> Num(12345)]
    [] issue = "invalid_value" ->
         [resourceType |-> "Patient", family |-> <<>>, given |-> <<>>, valid |-> FALSE,
          gender |-> Str("invalid_gender_value")]
    [] OTHER -> [valid |-> FALSE]

Issues == {"missing_required", "invalid_type", "invalid_value", "unknown"}

Payloads ==
  {patientV1, patientV2, rollbackPatient, transactionPatient, transactionPatient2, observation,
   invalidPatient}

(***************************************************************************)
(* Search parameters: a mapping, kept as a sequence of entries in the      *)
(* mapping's order.  A value is one text (list = FALSE) or a list of       *)
(* texts.  A query string is the sequence of its <<key, value>> pairs.     *)
(***************************************************************************)
Param(k, v) == [key |-> k, list |-> FALSE, vals |-> <<v>>]
ListParam(k, vs) == [key |-> k, list |-> TRUE, vals |-> vs]

\* str(list): the list's Python form, "['a', 'b']".
RECURSIVE Joined(_)
Joined(vs) ==
  IF vs = <<>> THEN <<>>
  ELSE IF Len(vs) = 1 THEN <<"'">> \o Head(vs) \o <<"'">>
  ELSE <<"'">> \o Head(vs) \o <<"'", ", ">> \o Joined(Tail(vs))

str(vs) == <<"[">> \o Joined(vs) \o <<"]">>

\* urllib.parse.urlencode: with doseq a list gives one pair per element;
\* without it the list is formatted with str() and sent as one value.
RECURSIVE urlencode(_, _)
urlencode(params, doseq) ==
  IF params = <<>> THEN <<>>
  ELSE LET p == Head(params)
           pairs == IF p.list /\ doseq
                    THEN [i \in DOMAIN p.vals |-> <<p.key, p.vals[i]>>]
                    ELSE IF p.list
                    THEN << <<p.key, str(p.vals)>> >>
                    ELSE << <<p.key, p.vals[1]>> >>
       IN pairs \o urlencode(Tail(params), doseq)

byFamilyOrder == << Param("family", <<"OrderTest">>) >>
byFamilyRollback == << Param("family", <<"RollbackTest">>) >>
byFamilyAndGiven == << Param("family", <<"OrderTest">>), Param("given", <<"V2">>) >>
byEitherFamily == << ListParam("family", << <<"OrderTest">>, <<"RollbackTest">> >>) >>
\* test_patient_search.py, lines 200-202: one key with a list of two values.
byBirthdateRange == << ListParam("birthdate", << <<"ge1980">>, <<"le1990">> >>) >>
byGivenAndEitherFamily ==
  << Param("given", <<"V1">>), ListParam("family", << <<"OrderTest">>, <<"RollbackTest">> >>) >>
Conditions == {byFamilyOrder, byFamilyRollback, byFamilyAndGiven}
SearchParams == Conditions \cup {byEitherFamily, <<>>}

(***************************************************************************)
(* HTTP requests and responses.                                            *)
(***************************************************************************)
NoQuery == <<>>
NoBody == Payload("", <<>>, <<>>, FALSE)

\* The URL is {base}/{rtype}/{id}/_history/{vid}?{query} with the absent parts
\* left out; history says that the path ends in /_history without a version.
Request(method, rtype, id, vid, query, ifNoneExist, ifMatch, body) ==
  [method |-> method, rtype |-> rtype, id |-> id, vid |-> vid, history |-> FALSE,
   query |-> query, ifNoneExist |-> ifNoneExist, ifMatch |-> ifMatch, json |-> body]

\* A response: the status and what the suite reads of the body; parses says
\* whether response.json() decodes the body, raised names the exception when
\* the caller got one in place of a response.
NoResp ==
  [status |-> 0, resourceType |-> "", id |-> NoId, versionId |-> NoVersion,
   family |-> <<>>, given |-> <<>>, type |-> "", total |-> 0, entry |-> <<>>,
   parses |-> TRUE, raised |-> ""]

\* The caller gets an exception.
Raised(exception) == [NoResp EXCEPT !.raised = exception]

\* resource['key'] of a resource without the key: no request is built.
KeyError(key) ==
  Request("KeyError", key, NoId, NoVersion, NoQuery, NoQuery, NoVersion, NoBody)

Raises(req) == req.method = "KeyError"

HasKey(resource, key) == key \in DOMAIN resource

(***************************************************************************)
(* The server under test (modelled from spec.md).  The store keeps, per    *)
(* (type, id), whether the resource is live and every snapshot of it.      *)
(***************************************************************************)
SrvEmptyStore == [k \in Keys |-> [live |-> FALSE, versions |-> <<>>]]

SrvLastVersion(r) ==
  IF r.versions = <<>> THEN NoVersion ELSE r.versions[Len(r.versions)].versionId

SrvCurrent(r) == r.versions[Len(r.versions)]

SrvContent(p) == [family |-> p.family, given |-> p.given]

SrvResource(status, t, n, snap) ==
  [NoResp EXCEPT !.status = status, !.resourceType = t, !.id = n,
                 !.versionId = snap.versionId, !.family = snap.content.family,
                 !.given = snap.content.given]

SrvOutcome(status) == [NoResp EXCEPT !.status = status, !.resourceType = "OperationOutcome"]

\* Ids no resource of any type has used: the server never assigns an id twice.
SrvFreeIds(st) == {n \in Ids : \A t \in Types : st[<<t, n>>].versions = <<>>}

SrvNewId(st) == CHOOSE n \in SrvFreeIds(st) : \A m \in SrvFreeIds(st) : n <= m

SrvAttr(c, k) == IF k = "family" THEN c.family ELSE IF k = "given" THEN c.given ELSE <<>>

\* Repeated keys are alternatives, different keys are all required (spec 4.1, 6);
\* a text parameter without a modifier matches the beginning of the field.
SrvSatisfies(c, q) ==
  \A i \in DOMAIN q :
    \E j \in DOMAIN q : q[j][1] = q[i][1] /\ StartsWith(SrvAttr(c, q[i][1]), q[j][2])

SrvMatches(st, t, q) ==
  {n \in Ids : st[<<t, n>>].live /\ SrvSatisfies(SrvCurrent(st[<<t, n>>]).content, q)}

\* Create: POST {base}/{type} -> 201 with a server-assigned id and version 1;
\* a semantic validation failure -> 400 or 422 (env.bad is the server's choice).
SrvCreate(st, t, p, env) ==
  IF t \notin Types \/ p.resourceType # t \/ ~p.valid
  THEN [st |-> st, resp |-> SrvOutcome(env.bad)]
  ELSE LET n == SrvNewId(st)
           snap == [versionId |-> 1, content |-> SrvContent(p)]
       IN [st |-> [st EXCEPT ![<<t, n>>] = [live |-> TRUE, versions |-> <<snap>>]],
           resp |-> SrvResource(201, t, n, snap)]

\* Conditional create: zero matches -> create; one -> return it unchanged;
\* more than one -> 412 (spec 3, 6).
SrvConditionalCreate(st, t, p, q, env) ==
  LET m == SrvMatches(st, t, q) IN
  IF t \notin Types THEN [st |-> st, resp |-> SrvOutcome(env.bad)]
  ELSE IF m = {} THEN SrvCreate(st, t, p, env)
  ELSE IF Cardinality(m) = 1
  THEN LET n == CHOOSE x \in m : TRUE
       IN [st |-> st, resp |-> SrvResource(200, t, n, SrvCurrent(st[<<t, n>>]))]
  ELSE [st |-> st, resp |-> SrvOutcome(412)]

\* Read: 200 with the current snapshot; 410 once deleted, 404 if never created.
SrvRead(st, t, n) ==
  IF <<t, n>> \notin Keys THEN [st |-> st, resp |-> SrvOutcome(404)]
  ELSE IF st[<<t, n>>].live
  THEN [st |-> st, resp |-> SrvResource(200, t, n, SrvCurrent(st[<<t, n>>]))]
  ELSE [st |-> st,
        resp |-> SrvOutcome(IF st[<<t, n>>].versions = <<>> THEN 404 ELSE 410)]

\* Vread: exactly the snapshot of that versionId, or 404 if it never existed.
SrvVread(st, t, n, v) ==
  IF <<t, n>> \notin Keys THEN [st |-> st, resp |-> SrvOutcome(404)]
  ELSE LET vs == st[<<t, n>>].versions
           hit == {i \in DOMAIN vs : vs[i].versionId = v}
       IN IF hit = {} THEN [st |-> st, resp |-> SrvOutcome(404)]
          ELSE [st |-> st, resp |-> SrvResource(200, t, n, vs[CHOOSE i \in hit : TRUE])]

\* Update: PUT {base}/{type}/{id}.  On a missing id -> 201 under that id; on an
\* existing one -> 200 with the version incremented and the prior snapshot
\* retained; an If-Match naming another version -> 409 or 412 (env.conflict).
SrvUpdate(st, t, n, p, ifMatch, env) ==
  IF <<t, n>> \notin Keys \/ p.resourceType # t \/ ~p.valid
  THEN [st |-> st, resp |-> SrvOutcome(env.bad)]
  ELSE LET r == st[<<t, n>>]
           snap == [versionId |-> SrvLastVersion(r) + 1, content |-> SrvContent(p)]
       IN IF ifMatch # NoVersion /\ (~r.live \/ ifMatch # SrvLastVersion(r))
          THEN [st |-> st, resp |-> SrvOutcome(env.conflict)]
          ELSE [st |-> [st EXCEPT ![<<t, n>>] =
                          [live |-> TRUE, versions |-> Append(r.versions, snap)]],
                resp |-> SrvResource(IF r.live THEN 200 ELSE 201, t, n, snap)]

\* Delete: 204 for a live resource, which is then gone; 404 otherwise.
SrvDelete(st, t, n) ==
  IF <<t, n>> \in Keys /\ st[<<t, n>>].live
  THEN [st |-> [st EXCEPT ![<<t, n>>].live = FALSE], resp |-> [NoResp EXCEPT !.status = 204]]
  ELSE [st |-> st, resp |-> SrvOutcome(404)]

\* Conditional delete: DELETE {base}/{type}?{query} deletes what matches; with
\* nothing to delete the server answers 204 or 404 (env.nomatch is its choice).
SrvConditionalDelete(st, t, q, env) ==
  IF t \notin Types THEN [st |-> st, resp |-> SrvOutcome(404)]
  ELSE LET m == SrvMatches(st, t, q)
       IN IF m = {} THEN [st |-> st, resp |-> [NoResp EXCEPT !.status = env.nomatch]]
          ELSE [st |-> [k \in Keys |->
                          IF k[1] = t /\ k[2] \in m THEN [st[k] EXCEPT !.live = FALSE]
                          ELSE st[k]],
                resp |-> [NoResp EXCEPT !.status = 204]]

\* Search: 200 with a searchset Bundle; total counts the matches.
SrvSearch(st, t, q) ==
  IF t \notin Types THEN [st |-> st, resp |-> SrvOutcome(404)]
  ELSE [st |-> st,
        resp |-> [NoResp EXCEPT !.status = 200, !.resourceType = "Bundle",
                                !.type = "searchset",
                                !.total = Cardinality(SrvMatches(st, t, q))]]

\* Conditional update: PUT {base}/{type}?{query}; no match creates, one match
\* is updated, several matches fail the precondition.
SrvConditionalUpdate(st, t, p, q, env) ==
  IF t \notin Types THEN [st |-> st, resp |-> SrvOutcome(404)]
  ELSE LET m == SrvMatches(st, t, q)
       IN IF m = {} THEN SrvCreate(st, t, p, env)
          ELSE IF Cardinality(m) = 1
          THEN SrvUpdate(st, t, CHOOSE n \in m : TRUE, p, NoVersion, env)
          ELSE [st |-> st, resp |-> SrvOutcome(412)]

\* The snapshots of one resource, newest version first.
SrvInstanceHistory(st, t, n) ==
  LET vs == st[<<t, n>>].versions
  IN [i \in 1..Len(vs) |-> SrvResource(200, t, n, vs[Len(vs) + 1 - i])]

RECURSIVE SrvHistories(_, _)
SrvHistories(st, keys) ==
  IF keys = {} THEN <<>>
  ELSE LET k == CHOOSE x \in keys : \A y \in keys : x[2] <= y[2]
       IN SrvInstanceHistory(st, k[1], k[2]) \o SrvHistories(st, keys \ {k})

\* History: GET {base}/{type}/{id}/_history, {base}/{type}/_history or
\* {base}/_history -> 200 with a Bundle of type history.
SrvHistory(st, t, n) ==
  IF (t # "" /\ t \notin Types) \/ (n # NoId /\ (t = "" \/ n \notin Ids))
       \/ (n # NoId /\ t \in Types /\ n \in Ids /\ st[<<t, n>>].versions = <<>>)
  THEN [st |-> st, resp |-> SrvOutcome(404)]
  ELSE LET keys == {k \in Keys : (t = "" \/ k[1] = t) /\ (n = NoId \/ k[2] = n)}
           entries == SrvHistories(st, keys)
       IN [st |-> st,
           resp |-> [NoResp EXCEPT !.status = 200, !.resourceType = "Bundle",
                                   !.type = "history", !.total = Len(entries),
                                   !.entry = entries]]

\* The purge-schema maintenance endpoint: key-gated; it reclaims storage and
\* leaves every resource the API can still reach as it is.
SrvPurge(st, t, key, goodKey) ==
  [st |-> st, resp |-> [NoResp EXCEPT !.status = IF key = goodKey THEN 200 ELSE 403]]

(***************************************************************************)
(* Bundles.  An entry is a request (method, type, id) with its resource.   *)
(* A batch processes every entry on its own; a transaction is all or       *)
(* nothing, its entries applied in bundle order (spec 3, 6, 7).            *)
(***************************************************************************)
Entry(method, rtype, id, resource) ==
  [method |-> method, rtype |-> rtype, id |-> id, resource |-> resource]

Bundle(type, entries) == [resourceType |-> "Bundle", type |-> type, entry |-> entries]

SrvEntry(st, e, env) ==
  CASE e.method = "POST" -> SrvCreate(st, e.rtype, e.resource, env)
    [] e.method = "PUT" -> SrvUpdate(st, e.rtype, e.id, e.resource, NoVersion, env)
    [] e.method = "GET" -> SrvRead(st, e.rtype, e.id)
    [] OTHER -> SrvDelete(st, e.rtype, e.id)

RECURSIVE SrvEntries(_, _, _)
SrvEntries(st, entries, env) ==
  IF entries = <<>> THEN [st |-> st, out |-> <<>>]
  ELSE LET r == SrvEntry(st, Head(entries), env)
           rest == SrvEntries(r.st, Tail(entries), env)
       IN [st |-> rest.st, out |-> <<r.resp>> \o rest.out]

SrvBundle(st, b, env) ==
  LET run == SrvEntries(st, b.entry, env)
      failed == \E i \in DOMAIN run.out : run.out[i].status >= 400
      answer == [NoResp EXCEPT !.status = 200, !.resourceType = "Bundle",
                               !.id = env.bundleId,
                               !.type = IF b.type = "batch" THEN "batch-response"
                                        ELSE "transaction-response",
                               !.entry = run.out]
  IN IF b.type = "batch" THEN [st |-> run.st, resp |-> answer]
     ELSE IF b.type = "transaction" /\ ~failed THEN [st |-> run.st, resp |-> answer]
     ELSE [st |-> st, resp |-> SrvOutcome(env.bad)]

\* The number of ids a bundle needs the server to assign.
SrvPosts(b) == Cardinality({i \in DOMAIN b.entry : b.entry[i].method = "POST"})

\* What the server does with a request, by method and URL.
Server(st, req, env) ==
  CASE req.method = "POST" /\ req.rtype = "" ->
         IF req.json.resourceType = "Bundle" THEN SrvBundle(st, req.json, env)
         ELSE [st |-> st, resp |-> SrvOutcome(env.bad)]
    [] req.method = "POST" /\ req.rtype # "" /\ req.ifNoneExist = NoQuery ->
         SrvCreate(st, req.rtype, req.json, env)
    [] req.method = "POST" /\ req.rtype # "" /\ req.ifNoneExist # NoQuery ->
         SrvConditionalCreate(st, req.rtype, req.json, req.ifNoneExist, env)
    [] req.method = "GET" /\ req.history -> SrvHistory(st, req.rtype, req.id)
    [] req.method = "GET" /\ ~req.history /\ req.id # NoId /\ req.vid # NoVersion ->
         SrvVread(st, req.rtype, req.id, req.vid)
    [] req.method = "GET" /\ ~req.history /\ req.id # NoId /\ req.vid = NoVersion ->
         SrvRead(st, req.rtype, req.id)
    [] req.method = "GET" /\ ~req.history /\ req.id = NoId ->
         SrvSearch(st, req.rtype, req.query)
    [] req.method = "PUT" /\ req.id = NoId /\ req.query # NoQuery ->
         SrvConditionalUpdate(st, req.rtype, req.json, req.query, env)
    [] req.method = "PUT" /\ ~(req.id = NoId /\ req.query # NoQuery) ->
         SrvUpdate(st, req.rtype, req.id, req.json, req.ifMatch, env)
    [] req.method = "DELETE" /\ req.id # NoId -> SrvDelete(st, req.rtype, req.id)
    [] req.method = "DELETE" /\ req.id = NoId ->
         SrvConditionalDelete(st, req.rtype, req.query, env)

(***************************************************************************)
(* FHIRClient: each operation builds one request (src/utils/fhir_client).  *)
(***************************************************************************)
\* Variant of create: a Bundle too is posted to the endpoint of its type.
create_at_type_endpoint(resource) ==
  Request("POST", resource.resourceType, NoId, NoVersion, NoQuery, NoQuery, NoVersion,
          resource)

\* Variant of create: every resource is posted to the system root.
create_at_root(resource) ==
  IF ~HasKey(resource, "resourceType") THEN KeyError("resourceType")
  ELSE Request("POST", "", NoId, NoVersion, NoQuery, NoQuery, NoVersion, resource)

create(resource) ==
  IF ~HasKey(resource, "resourceType") THEN KeyError("resourceType")
  ELSE IF resource.resourceType = "Bundle"
  THEN Request("POST", "", NoId, NoVersion, NoQuery, NoQuery, NoVersion, resource)
  ELSE Request("POST", resource.resourceType, NoId, NoVersion, NoQuery, NoQuery,
               NoVersion, resource)

read(resource_type, resource_id) ==
  Request("GET", resource_type, resource_id, NoVersion, NoQuery, NoQuery, NoVersion, NoBody)

\* Variant of vread: the URL without /_history/{version_id}.
read_current(resource_type, resource_id, version_id) == read(resource_type, resource_id)

vread(resource_type, resource_id, version_id) ==
  Request("GET", resource_type, resource_id, version_id, NoQuery, NoQuery, NoVersion, NoBody)

\* Variant of update: the If-Match header is never sent.
update_without_if_match(resource, if_match) ==
  Request("PUT", resource.resourceType, resource.id, NoVersion, NoQuery, NoQuery,
          NoVersion, resource)

\* Variant of update: PUT on the collection endpoint, without the id.
update_at_collection(resource, if_match) ==
  Request("PUT", resource.resourceType, NoId, NoVersion, NoQuery, NoQuery, if_match,
          resource)

update(resource, if_match) ==
  IF ~HasKey(resource, "resourceType") THEN KeyError("resourceType")
  ELSE IF ~HasKey(resource, "id") THEN KeyError("id")
  ELSE Request("PUT", resource.resourceType, resource.id, NoVersion, NoQuery, NoQuery,
               if_match, resource)

\* Variant of delete: a GET of the same URL.
delete_as_read(resource_type, resource_id) == read(resource_type, resource_id)

delete(resource_type, resource_id) ==
  Request("DELETE", resource_type, resource_id, NoVersion, NoQuery, NoQuery, NoVersion, NoBody)

\* Variant of search: urlencode without doseq.
search_without_doseq(resource_type, params) ==
  Request("GET", resource_type, NoId, NoVersion, urlencode(params, FALSE), NoQuery,
          NoVersion, NoBody)

search(resource_type, params) ==
  Request("GET", resource_type, NoId, NoVersion,
          IF params # <<>> THEN urlencode(params, TRUE) ELSE NoQuery, NoQuery,
          NoVersion, NoBody)

\* Variant of conditional_create: the If-None-Exist header is not sent.
create_unconditionally(resource, search_params) == create(resource)

\* Variant of conditional_create: the condition goes into the URL's query.
create_with_query(resource, search_params) ==
  Request("POST", resource.resourceType, NoId, NoVersion, urlencode(search_params, FALSE),
          NoQuery, NoVersion, resource)

conditional_create(resource, search_params) ==
  IF ~HasKey(resource, "resourceType") THEN KeyError("resourceType")
  ELSE Request("POST", resource.resourceType, NoId, NoVersion, NoQuery,
               urlencode(search_params, FALSE), NoVersion, resource)

conditional_update(resource, search_params) ==
  IF ~HasKey(resource, "resourceType") THEN KeyError("resourceType")
  ELSE Request("PUT", resource.resourceType, NoId, NoVersion,
               urlencode(search_params, FALSE), NoQuery, NoVersion, resource)

conditional_delete(resource_type, search_params) ==
  Request("DELETE", resource_type, NoId, NoVersion, urlencode(search_params, FALSE),
          NoQuery, NoVersion, NoBody)

\* An argument left out (None).
NoType == ""
NoParams == <<>>

\* fhir_client.py, lines 195-204: the instance history when resource_id and
\* resource_type are both given, the type history when resource_type is, the
\* system history otherwise.
history(resource_type, resource_id, params) ==
  LET target == IF resource_id # NoId /\ resource_type # NoType
                THEN <<resource_type, resource_id>>
                ELSE IF resource_type # NoType THEN <<resource_type, NoId>>
                ELSE <<NoType, NoId>>
  IN [Request("GET", target[1], target[2], NoVersion,
              IF params # NoParams THEN urlencode(params, TRUE) ELSE NoQuery,
              NoQuery, NoVersion, NoBody) EXCEPT !.history = TRUE]

type_history(resource_type, params) == history(resource_type, NoId, params)

system_history(params) == history(NoType, NoId, params)

\* A resource with the id the client gives it (generate_patient(id=...)).
WithId(p, n) ==
  [resourceType |-> p.resourceType, id |-> n, family |-> p.family, given |-> p.given,
   valid |-> p.valid]

(***************************************************************************)
(* Bundles the scenarios post.  generate_patient() without a name gives    *)
(* some valid Patient: patientV1 stands for it.                            *)
(***************************************************************************)
MaxEntries == 2

\* "nonexistent-id-12345": an id no resource has.
nonexistent_id == 12345

batch_partial_failure ==
  Bundle("batch", << Entry("POST", "Patient", NoId, patientV1),
                     Entry("GET", "Patient", nonexistent_id, NoBody),
                     Entry("POST", "Patient", NoId, patientV1) >>)

\* Variant of the rollback scenario: the same entries as a batch.
batch_with_invalid_entry ==
  Bundle("batch", << Entry("POST", "Patient", NoId, rollbackPatient),
                     Entry("POST", "Patient", NoId, invalidPatient) >>)

transaction_rollback_on_error ==
  Bundle("transaction", << Entry("POST", "Patient", NoId, rollbackPatient),
                           Entry("POST", "Patient", NoId, invalidPatient) >>)

transaction_all_succeed ==
  Bundle("transaction", << Entry("POST", "Patient", NoId, transactionPatient),
                           Entry("POST", "Patient", NoId, transactionPatient2) >>)

\* Variant of the ordering scenario: V2 is put first, V1 second.
transaction_reordered(patient_id) ==
  Bundle("transaction", << Entry("PUT", "Patient", patient_id, WithId(patientV2, patient_id)),
                           Entry("PUT", "Patient", patient_id, WithId(patientV1, patient_id)),
                           Entry("GET", "Patient", patient_id, NoBody) >>)

transaction_ordering(patient_id) ==
  Bundle("transaction", << Entry("PUT", "Patient", patient_id, WithId(patientV1, patient_id)),
                           Entry("PUT", "Patient", patient_id, WithId(patientV2, patient_id)),
                           Entry("GET", "Patient", patient_id, NoBody) >>)

ScenarioBundles ==
  {batch_partial_failure, transaction_rollback_on_error, transaction_all_succeed}
    \cup {transaction_ordering(n) : n \in Ids}

EntryKinds ==
  {Entry("POST", "Patient", NoId, rollbackPatient),
   Entry("POST", "Patient", NoId, invalidPatient),
   Entry("GET", "Patient", nonexistent_id, NoBody)}

OtherBundles ==
  {Bundle(ty, es) : ty \in {"batch", "transaction"},
                    es \in UNION {[1..n -> EntryKinds] : n \in 1..MaxEntries}}

Bundles == ScenarioBundles \cup OtherBundles

(***************************************************************************)
(* The choices the server and the network make.                            *)
(***************************************************************************)
PlainEnv ==
  [bad |-> 400, conflict |-> 412, bundleId |-> NoId, nomatch |-> 204, body |-> "json"]
BadEnvs == {[PlainEnv EXCEPT !.bad = b] : b \in {400, 422}}
BundleEnvs == {[e EXCEPT !.bundleId = n] : e \in BadEnvs, n \in {NoId, 1}}
UpdateEnvs == {[e EXCEPT !.conflict = c] : e \in BadEnvs, c \in {409, 412}}
DeleteEnvs == {[PlainEnv EXCEPT !.nomatch = n] : n \in {204, 404}}
\* A server answers a create with the resource, or with the status alone.
CreateEnvs == {[e EXCEPT !.body = b] : e \in BundleEnvs, b \in {"json", "none"}}

\* The response as it is sent: with env.body = "none" the body is empty.
SrvAnswer(r, env) ==
  IF env.body = "json" THEN r
  ELSE [st |-> r.st,
        resp |-> [NoResp EXCEPT !.status = r.resp.status, !.parses = FALSE]]

\* What can become of a request of teardown: it is answered, or it raises
\* (requests.ConnectionError: the server never got it).
Fates == {"answered", "unsent"}

(***************************************************************************)
(* The cleanup / isolation layer (src/conftest.py).                        *)
(***************************************************************************)
PURGE_KEY == "c522382c-8656-463e-8277-b913e4466f53"

\* A test's name, word by word; str.lower() puts a word in lower case.
lower(w) ==
  CASE w = "Transaction" -> "transaction"
    [] w = "Rollback" -> "rollback"
    [] OTHER -> w

Contains(name, word) == \E i \in DOMAIN name : lower(name[i]) = word

test_code_value_quantity_gt == <<"test", "code", "value", "quantity", "gt">>
test_batch_partial_failure == <<"test", "batch", "partial", "failure">>
test_transaction_ordering == <<"test", "transaction", "ordering">>
test_transaction_rollback_on_error == <<"test", "transaction", "rollback", "on", "error">>
test_transaction_all_succeed == <<"test", "transaction", "all", "succeed">>

TestNames ==
  {test_code_value_quantity_gt, test_batch_partial_failure, test_transaction_ordering,
   test_transaction_rollback_on_error, test_transaction_all_succeed}

\* conftest.py, lines 61-68: the markers a test's name selects.
Markers(test_name) ==
  (IF Contains(test_name, "transaction") THEN <<"TransactionTest", "ConditionalTxn">>
   ELSE <<>>)
    \o (IF Contains(test_name, "rollback") THEN <<"TestRollback">> ELSE <<>>)

VARIABLES
  store,                   \* the server's resources
  created_resources,       \* _created_resources, the ledger
  recorded_by,             \* per ledger entry, the test that recorded it
  pc,                      \* where the run is: "idle", "body", "delete", "markers", "purge"
  test_no,                 \* how many tests have started
  tracked,                 \* the test's client fixture is conftest's (with tracking)
  test_markers,
  test_name,               \* request.node.name, word by word
  outcome,                 \* of the test body: "none", "running", "passed", "failed"
  idx,                     \* position of teardown's current loop
  deleted_resource_types,
  to_purge,                \* the types teardown's purge loop still has to visit
  issued,                  \* the requests teardown has sent, in order
  answered,                \* per request of teardown, the status answered (0: it raised)
  raised,                  \* a request of this teardown raised
  nops,                    \* requests of the body that may write
  made,                    \* the resources this test caused to be created
  last,                    \* the last client call: operation, arguments, request, response
  submitted,               \* what the test has submitted: <<type, id, versionId, content>>
  streak,                  \* the run of conditional creates with one condition
  budget,                  \* how many requests that may write a test body makes
  applied                  \* the last call of an assertion or a generator, with its result

vars ==
  <<test_name, store, created_resources, recorded_by, pc, test_no, tracked, test_markers,
    outcome, idx, deleted_resource_types, to_purge, issued, answered, raised, nops, made,
    last, submitted, streak, budget, applied>>

\* A call of a function of the library: its name, its arguments, its result.
NoApplication == [fn |-> "none", args |-> <<>>, result |-> <<>>]

Application(fn, args, result) == [fn |-> fn, args |-> args, result |-> result]

\* A call of the client: the operation and its arguments, the request built,
\* how many HTTP requests were sent, the server's response and what the
\* caller got back.
NoCall ==
  [op |-> "none", args |-> <<>>, req |-> read("", NoId), sent |-> 0, resp |-> NoResp,
   returned |-> NoResp]

Call(op, args, req, resp, returned) ==
  [op |-> op, args |-> args, req |-> req, sent |-> IF Raises(req) THEN 0 ELSE 1,
   resp |-> resp, returned |-> returned]

\* No run of conditional creates is under way.
NoStreak ==
  [n |-> 0, type |-> "", params |-> <<>>, first |-> NoId, fits |-> TRUE,
   status |-> 0, id |-> NoId, born |-> 0]

\* The resources that exist in new and did not in old.
Born(old, new) == {k \in Keys : new[k].live /\ ~old[k].live}

Live(st) == {k \in Keys : st[k].live}

Init ==
  /\ store = SrvEmptyStore
  /\ created_resources = <<>>
  /\ recorded_by = <<>>
  /\ pc = "idle"
  /\ test_no = 0
  /\ tracked = FALSE
  /\ test_markers = <<>>
  /\ test_name = <<>>
  /\ outcome = "none"
  /\ idx = 1
  /\ deleted_resource_types = {}
  /\ to_purge = {}
  /\ issued = <<>>
  /\ answered = <<>>
  /\ raised = FALSE
  /\ nops = 0
  /\ made = {}
  /\ last = NoCall
  /\ submitted = {}
  /\ streak = NoStreak
  /\ budget = MaxOps
  /\ applied = NoApplication

\* conftest.py, line 58: the ledger is cleared before the test.
SetupClear(ledger) == <<>>

\* Variant of line 106: the ledger is left as it is.
KeepLedger(ledger) == ledger

\* conftest.py, line 106: and cleared again for the next test.
TeardownClear(ledger) == <<>>

\* conftest.py, lines 49-70: the fixture up to its yield.  Which client fixture
\* the test gets is decided by its module: conftest's, or the module's own.
Setup(name, uses_conftest_client) ==
  /\ pc = "idle"
  /\ test_no < MaxTests
  /\ created_resources' = SetupClear(created_resources)
  /\ recorded_by' = SetupClear(recorded_by)
  /\ test_markers' = Markers(name)
  /\ test_name' = name
  /\ tracked' = uses_conftest_client
  /\ test_no' = test_no + 1
  /\ pc' = "body"
  /\ outcome' = "running"
  /\ idx' = 1
  /\ deleted_resource_types' = {}
  /\ to_purge' = {}
  /\ issued' = <<>>
  /\ answered' = <<>>
  /\ raised' = FALSE
  /\ nops' = 0
  /\ made' = {}
  /\ last' = NoCall
  /\ submitted' = {}
  /\ streak' = NoStreak
  /\ UNCHANGED <<store, budget, applied>>

\* conftest.py, lines 28-37: what tracked_create does with create's response.
\* Variant of tracked_create: the answer is recorded without looking for its
\* resourceType and id.
tracked_create_unchecked(ledger, response) ==
  IF response.status \in {200, 201}
  THEN Append(ledger, <<response.resourceType, response.id>>)
  ELSE ledger

tracked_create(ledger, response) ==
  IF response.status \in {200, 201}
       /\ response.resourceType # "" /\ response.id # NoId
  THEN Append(ledger, <<response.resourceType, response.id>>)
  ELSE ledger

\* conftest.py, lines 29-37: what tracked_create hands to its caller: the
\* response, unless response.json() raises on a 200/201 whose body is no JSON.
tracked_create_returns(response) ==
  IF response.status \in {200, 201} /\ ~response.parses
  THEN Raised("JSONDecodeError") ELSE response

\* The ids the server must still have for the request.
Needs(resource) ==
  IF ~HasKey(resource, "resourceType") THEN 0
  ELSE IF resource.resourceType = "Bundle" THEN SrvPosts(resource)
  ELSE IF resource.valid THEN 1 ELSE 0

BodyFrame ==
  UNCHANGED <<pc, test_no, tracked, test_markers, test_name, outcome, idx, deleted_resource_types,
              to_purge, issued, answered, raised, budget, applied>>

\* What a write's answer tells the test it has stored: the snapshots the
\* server acknowledged (201 or 200 with a versionId), with the content sent.
Stored(resource, resp) ==
  IF resp.status \in {200, 201} /\ resp.versionId # NoVersion
  THEN {<<resp.resourceType, resp.id, resp.versionId, SrvContent(resource)>>}
  ELSE {}

StoredByBundle(bundle, resp) ==
  IF resp.status # 200 THEN {}
  ELSE UNION {IF bundle.entry[i].method \in {"POST", "PUT"}
              THEN Stored(bundle.entry[i].resource, resp.entry[i]) ELSE {}
              : i \in DOMAIN resp.entry}

Acknowledged(op, req, resp) ==
  IF req.json.resourceType = "Bundle" THEN StoredByBundle(req.json, resp)
  ELSE IF op \in {"create", "update"} \/ (op = "conditional_create" /\ resp.status = 201)
  THEN Stored(req.json, resp)
  ELSE {}

\* The run of consecutive conditional creates with one condition, begun when
\* nothing matched it; any other write ends it.
NextStreak(op, resource, params, resp, born) ==
  LET t == resource.resourceType
      fit == t # "Bundle" /\ resource.valid /\ SrvSatisfies(SrvContent(resource), urlencode(params, FALSE))
      begun == streak.n > 0 /\ streak.type = t /\ streak.params = params
      fresh == Server(store, search(t, params), PlainEnv).resp.total = 0
  IN IF op # "conditional_create" \/ ~(begun \/ fresh) THEN NoStreak
     ELSE [n |-> IF begun THEN streak.n + 1 ELSE 1,
           type |-> t, params |-> params,
           first |-> IF begun THEN streak.first ELSE resp.id,
           fits |-> IF begun THEN streak.fits /\ fit ELSE fit,
           status |-> resp.status, id |-> resp.id, born |-> born]

\* What becomes of a request: nothing is sent when building it raised,
\* otherwise the server answers.
Respond(st, req, env) ==
  IF Raises(req) THEN [st |-> st, resp |-> NoResp]
  ELSE SrvAnswer(Server(st, req, env), env)

\* What the caller gets: the exception, or the response, through the tracked
\* create when the call is wrapped.
Returned(req, resp, wrapped) ==
  IF Raises(req) THEN Raised("KeyError")
  ELSE IF wrapped THEN tracked_create_returns(resp)
  ELSE resp

\* The books after a write that ended with r.
Written(op, args, req, r, wrapped) ==
  /\ store' = r.st
  /\ made' = made \cup Born(store, r.st)
  /\ last' = Call(op, args, req, r.resp, Returned(req, r.resp, wrapped))
  /\ submitted' = submitted \cup Acknowledged(op, req, r.resp)
  /\ streak' = IF op = "conditional_create" /\ ~Raises(req)
               THEN NextStreak(op, args[1], args[2], r.resp, Cardinality(Born(store, r.st)))
               ELSE NoStreak
  /\ nops' = nops + 1

\* One write of the test body: the request, the server's answer, the books.
Write(op, args, req, env, wrapped) ==
  Written(op, args, req, Respond(store, req, env), wrapped)

Fetched(op, args, req, resp) ==
  /\ last' = Call(op, args, req, resp, resp)
  /\ UNCHANGED <<store, made, nops, created_resources, recorded_by, submitted, streak>>

\* One read of the test body.
Fetch(op, args, req) == Fetched(op, args, req, Server(store, req, PlainEnv).resp)

\* client.session.post(url, json=...): the request as the test wrote it.
session_post(rtype, json) ==
  Request("POST", rtype, NoId, NoVersion, NoQuery, NoQuery, NoVersion, json)

\* client.create(resource): through tracked_create when the client is conftest's.
Create(resource, env) ==
  /\ pc = "body" /\ nops < budget
  /\ Needs(resource) <= Cardinality(SrvFreeIds(store))
  /\ Write("create", <<resource>>, create(resource), env, tracked)
  /\ LET ledger == IF tracked THEN tracked_create(created_resources, last'.resp)
                   ELSE created_resources
     IN /\ created_resources' = ledger
        /\ recorded_by' = IF Len(ledger) > Len(created_resources)
                          THEN Append(recorded_by, test_no) ELSE recorded_by
  /\ BodyFrame

\* client.session.post(client.base_url, json=bundle): test_bundles.py.
SessionPost(bundle, env) ==
  /\ pc = "body" /\ nops < budget
  /\ Needs(bundle) <= Cardinality(SrvFreeIds(store))
  /\ Write("session.post", <<bundle>>, session_post("", bundle), env, FALSE)
  /\ UNCHANGED <<created_resources, recorded_by>>
  /\ BodyFrame

ConditionalCreate(resource, search_params, env) ==
  /\ pc = "body" /\ nops < budget
  /\ Needs(resource) <= Cardinality(SrvFreeIds(store))
  /\ Write("conditional_create", <<resource, search_params>>,
           conditional_create(resource, search_params), env, FALSE)
  /\ UNCHANGED <<created_resources, recorded_by>>
  /\ BodyFrame

Update(resource, if_match, env) ==
  /\ pc = "body" /\ nops < budget
  /\ Write("update", <<resource, if_match>>, update(resource, if_match), env, FALSE)
  /\ UNCHANGED <<created_resources, recorded_by>>
  /\ BodyFrame

Delete(resource_type, resource_id) ==
  /\ pc = "body" /\ nops < budget
  /\ Write("delete", <<resource_type, resource_id>>, delete(resource_type, resource_id),
           PlainEnv, FALSE)
  /\ UNCHANGED <<created_resources, recorded_by>>
  /\ BodyFrame

Read(resource_type, resource_id) ==
  /\ pc = "body"
  /\ Fetch("read", <<resource_type, resource_id>>, read(resource_type, resource_id))
  /\ BodyFrame

Vread(resource_type, resource_id, version_id) ==
  /\ pc = "body"
  /\ Fetch("vread", <<resource_type, resource_id, version_id>>,
           vread(resource_type, resource_id, version_id))
  /\ BodyFrame

Search(resource_type, params) ==
  /\ pc = "body"
  /\ Fetch("search", <<resource_type, params>>, search(resource_type, params))
  /\ BodyFrame

ConditionalUpdate(resource, search_params, env) ==
  /\ pc = "body" /\ nops < budget
  /\ Needs(resource) <= Cardinality(SrvFreeIds(store))
  /\ Write("conditional_update", <<resource, search_params>>,
           conditional_update(resource, search_params), env, FALSE)
  /\ UNCHANGED <<created_resources, recorded_by>>
  /\ BodyFrame

ConditionalDelete(resource_type, search_params, env) ==
  /\ pc = "body" /\ nops < budget
  /\ Write("conditional_delete", <<resource_type, search_params>>,
           conditional_delete(resource_type, search_params), env, FALSE)
  /\ UNCHANGED <<created_resources, recorded_by>>
  /\ BodyFrame

History(resource_type, resource_id, params) ==
  /\ pc = "body"
  /\ Fetch("history", <<resource_type, resource_id, params>>,
           history(resource_type, resource_id, params))
  /\ BodyFrame

TypeHistory(resource_type, params) ==
  /\ pc = "body"
  /\ Fetch("type_history", <<resource_type, params>>, type_history(resource_type, params))
  /\ BodyFrame

SystemHistory(params) ==
  /\ pc = "body"
  /\ Fetch("system_history", <<params>>, system_history(params))
  /\ BodyFrame

\* The body ends, passing or failing; the fixture resumes after its yield.
EndBody(result) ==
  /\ pc = "body"
  /\ outcome' = result
  /\ pc' = "delete"
  /\ idx' = 1
  /\ last' = NoCall
  /\ streak' = NoStreak
  /\ UNCHANGED <<store, created_resources, recorded_by, test_no, tracked, test_markers,
                 test_name, deleted_resource_types, to_purge, issued, answered, raised, nops, made,
                 submitted, budget, applied>>

(***************************************************************************)
(* Teardown: the fixture after its yield (conftest.py, lines 72-106).      *)
(***************************************************************************)
TeardownFrame ==
  UNCHANGED <<test_no, tracked, test_markers, test_name, outcome, nops, made, last, submitted, streak,
              budget, applied>>

\* Variant of lines 83-84: the exception ends the loop.
AbortOnException(i, n) == n + 1

\* conftest.py, lines 83-84: "except Exception: pass", the loop goes on with
\* the next entry.
AfterException(i, n) == i + 1

\* The status a request of teardown is answered with; none when it raised.
NoStatus == 0
StatusOf(fate, response) == IF fate = "answered" THEN response.status ELSE NoStatus

\* Variant of lines 82 and 95: the type is not noted.
add_nothing(types, resource_type) == types

\* conftest.py, lines 82 and 95: deleted_resource_types.add(resource_type).
add(types, resource_type) == types \cup {resource_type}

\* conftest.py, lines 79-84: one turn of the loop over the ledger.
TeardownDelete(fate) ==
  /\ pc = "delete" /\ idx <= Len(created_resources)
  /\ LET e == created_resources[idx]
         req == delete(e[1], e[2])
         r == Server(store, req, PlainEnv)
     IN /\ issued' = Append(issued, req)
        /\ answered' = Append(answered, StatusOf(fate, r.resp))
        /\ store' = IF fate = "unsent" THEN store ELSE r.st
        /\ IF fate = "answered"
           THEN /\ deleted_resource_types' = add(deleted_resource_types, e[1])
                /\ idx' = idx + 1
                /\ UNCHANGED raised
           ELSE /\ idx' = AfterException(idx, Len(created_resources))
                /\ raised' = TRUE
                /\ UNCHANGED deleted_resource_types
  /\ UNCHANGED <<created_resources, recorded_by, pc, to_purge>>
  /\ TeardownFrame

\* The loop over the ledger is over.
TeardownDeleted ==
  /\ pc = "delete" /\ idx > Len(created_resources)
  /\ pc' = "markers"
  /\ idx' = 1
  /\ UNCHANGED <<store, created_resources, recorded_by, deleted_resource_types, to_purge,
                 issued, answered, raised>>
  /\ TeardownFrame

\* conftest.py, lines 87-95: one turn of the loop over the markers.
TeardownMarker(fate, env) ==
  /\ pc = "markers" /\ idx <= Len(test_markers)
  /\ LET req == conditional_delete("Patient", << Param("family", <<test_markers[idx]>>) >>)
         r == Server(store, req, env)
     IN /\ issued' = Append(issued, req)
        /\ answered' = Append(answered, StatusOf(fate, r.resp))
        /\ store' = IF fate = "unsent" THEN store ELSE r.st
        /\ deleted_resource_types' =
             IF fate = "answered" /\ r.resp.status \in {200, 204}
             THEN add(deleted_resource_types, "Patient") ELSE deleted_resource_types
        /\ raised' = (raised \/ fate # "answered")
  /\ idx' = idx + 1
  /\ UNCHANGED <<created_resources, recorded_by, pc, to_purge>>
  /\ TeardownFrame

\* The loop over the markers is over; the purge loop starts.
TeardownMarked ==
  /\ pc = "markers" /\ idx > Len(test_markers)
  /\ pc' = "purge"
  /\ to_purge' = deleted_resource_types
  /\ UNCHANGED <<store, created_resources, recorded_by, idx, deleted_resource_types,
                 issued, answered, raised>>
  /\ TeardownFrame

\* The purge request: GET {base}/purgeschema/{resource_type}/{PURGE_KEY}.
purge_url(resource_type) ==
  Request("GET", "purgeschema", NoId, NoVersion, << <<resource_type, <<PURGE_KEY>> >> >>,
          NoQuery, NoVersion, NoBody)

\* conftest.py, lines 98-103: one turn of the loop over the types deleted from.
TeardownPurge(resource_type, fate) ==
  /\ pc = "purge" /\ resource_type \in to_purge
  /\ issued' = Append(issued, purge_url(resource_type))
  /\ answered' = Append(answered,
                        StatusOf(fate, SrvPurge(store, resource_type, PURGE_KEY, PURGE_KEY).resp))
  /\ store' = IF fate = "unsent" THEN store
              ELSE SrvPurge(store, resource_type, PURGE_KEY, PURGE_KEY).st
  /\ raised' = (raised \/ fate # "answered")
  /\ to_purge' = to_purge \ {resource_type}
  /\ UNCHANGED <<created_resources, recorded_by, pc, idx, deleted_resource_types>>
  /\ TeardownFrame

\* conftest.py, line 106: the ledger is cleared and the fixture returns.
TeardownDone ==
  /\ pc = "purge" /\ to_purge = {}
  /\ created_resources' = TeardownClear(created_resources)
  /\ recorded_by' = TeardownClear(recorded_by)
  /\ pc' = "idle"
  /\ UNCHANGED <<store, idx, deleted_resource_types, to_purge, issued, answered, raised>>
  /\ TeardownFrame

Teardown ==
  \/ \E fate \in Fates : TeardownDelete(fate)
  \/ TeardownDeleted
  \/ \E fate \in Fates, env \in DeleteEnvs : TeardownMarker(fate, env)
  \/ TeardownMarked
  \/ \E t \in to_purge, fate \in Fates : TeardownPurge(t, fate)
  \/ TeardownDone

(***************************************************************************)
(* The suite, run serially: each test is set up, runs its body against the *)
(* server and is torn down.                                                *)
(***************************************************************************)
\* The tests of the suite by what teardown sees of them: the name, and whether
\* the module takes conftest's client (test_composite_search.py) or defines its
\* own (the other modules: test_bundles.py, lines 13-16).
Test(name, uses_conftest_client) == [name |-> name, conftest_client |-> uses_conftest_client]

Tests ==
  {Test(test_code_value_quantity_gt, TRUE), Test(test_batch_partial_failure, FALSE),
   Test(test_transaction_ordering, FALSE), Test(test_transaction_rollback_on_error, FALSE),
   Test(test_transaction_all_succeed, FALSE)}

\* The bundles a test posts with client.session.post (test_bundles.py).
BundlesOf(name) ==
  CASE name = test_batch_partial_failure -> {batch_partial_failure}
    [] name = test_transaction_rollback_on_error -> {transaction_rollback_on_error}
    [] name = test_transaction_all_succeed -> {transaction_all_succeed}
    [] name = test_transaction_ordering -> {transaction_ordering(n) : n \in Ids}
    [] OTHER -> {}

HarnessPayloads == {patientV1, observation, invalidPatient}
HarnessBundles == {batch_partial_failure, transaction_all_succeed}

Next ==
  \/ \E t \in Tests : Setup(t.name, t.conftest_client)
  \/ \E r \in HarnessPayloads \cup HarnessBundles, env \in CreateEnvs : Create(r, env)
  \/ \E b \in BundlesOf(test_name), env \in BadEnvs : SessionPost(b, env)
  \/ \E env \in BadEnvs : ConditionalCreate(patientV1, byFamilyOrder, env)
  \/ \E env \in BadEnvs : Update(WithId(patientV1, MaxRes), NoVersion, env)
  \/ \E k \in made : Delete(k[1], k[2])
  \/ \E result \in {"passed", "failed"} : EndBody(result)
  \/ Teardown

Spec == Init /\ [][Next]_vars

(***************************************************************************)
(* One scenario against the server: a test of a module with its own client *)
(* (test_conditional_create.py, test_bundles.py, test_history_versioning)  *)
(* is in its body and may make any of the client's calls.                  *)
(***************************************************************************)
\* The versions a scenario asks for: those there can be, and "999".
nonexistent_version == 999
Versions == 1..MaxOps \cup {nonexistent_version}

ScenarioInit ==
  /\ store = SrvEmptyStore
  /\ created_resources = <<>>
  /\ recorded_by = <<>>
  /\ pc = "body"
  /\ test_no = 1
  /\ tracked = FALSE
  /\ test_markers = <<>>
  /\ test_name = <<>>
  /\ outcome = "running"
  /\ idx = 1
  /\ deleted_resource_types = {}
  /\ to_purge = {}
  /\ issued = <<>>
  /\ answered = <<>>
  /\ raised = FALSE
  /\ nops = 0
  /\ made = {}
  /\ last = NoCall
  /\ submitted = {}
  /\ streak = NoStreak
  /\ budget = MaxOps
  /\ applied = NoApplication

ScenarioPayloads == {patientV1, patientV2, observation, invalidPatient}

ScenarioNext ==
  \/ \E r \in ScenarioPayloads \cup {batch_partial_failure}, env \in BadEnvs : Create(r, env)
  \/ \E b \in Bundles, env \in BadEnvs : SessionPost(b, env)
  \/ \E r \in ScenarioPayloads, q \in Conditions, env \in BadEnvs : ConditionalCreate(r, q, env)
  \/ \E r \in ScenarioPayloads, n \in Ids, env \in BadEnvs : Update(WithId(r, n), NoVersion, env)
  \/ \E k \in Keys : Delete(k[1], k[2])
  \/ \E k \in Keys : Read(k[1], k[2])
  \/ \E k \in Keys, v \in Versions : Vread(k[1], k[2], v)
  \/ \E t \in Types, q \in SearchParams : Search(t, q)

ScenarioSpec == ScenarioInit /\ [][ScenarioNext]_vars

(***************************************************************************)
(* The life of single resources: a test of test_patient_crud.py or         *)
(* test_error_handling.py creates, updates (with and without If-Match),    *)
(* deletes and reads Patients.                                             *)
(***************************************************************************)
MaxSteps == 3

\* The versions an If-Match names: W/"1", W/"2", W/"999"; or no header.
IfMatches == {NoVersion, 1, 2, nonexistent_version}

LifecycleInit ==
  /\ store = SrvEmptyStore
  /\ created_resources = <<>>
  /\ recorded_by = <<>>
  /\ pc = "body"
  /\ test_no = 1
  /\ tracked = FALSE
  /\ test_markers = <<>>
  /\ test_name = <<>>
  /\ outcome = "running"
  /\ idx = 1
  /\ deleted_resource_types = {}
  /\ to_purge = {}
  /\ issued = <<>>
  /\ answered = <<>>
  /\ raised = FALSE
  /\ nops = 0
  /\ made = {}
  /\ last = NoCall
  /\ submitted = {}
  /\ streak = NoStreak
  /\ budget = MaxSteps
  /\ applied = NoApplication

LifecycleNext ==
  \/ \E env \in BadEnvs : Create(patientV1, env)
  \/ \E r \in {patientV1, patientV2, invalidPatient}, n \in Ids, v \in IfMatches,
        env \in UpdateEnvs : Update(WithId(r, n), v, env)
  \/ \E n \in Ids : Delete("Patient", n)
  \/ \E n \in Ids : Read("Patient", n)

LifecycleSpec == LifecycleInit /\ [][LifecycleNext]_vars

(***************************************************************************)
(* The client alone: a test body, with or without the tracked create, calls *)
(* every operation of FHIRClient with the arguments the suite's generators  *)
(* and tests produce, the invalid resources among them.                     *)
(***************************************************************************)
MaxCalls == 2

\* test_error_handling.py, lines 503-507.
empty_bundle == Bundle("batch", <<>>)

ClientResources ==
  {patientV1, observation, empty_bundle} \cup {generate_invalid_patient(i) : i \in Issues}

\* test_history_versioning.py, line 120.
byCount == << Param("_count", <<"2">>) >>

ClientParams ==
  {NoParams, byFamilyOrder, byFamilyAndGiven, byEitherFamily, byBirthdateRange,
   byGivenAndEitherFamily}

ClientInit ==
  /\ store = SrvEmptyStore
  /\ created_resources = <<>>
  /\ recorded_by = <<>>
  /\ pc = "body"
  /\ test_no = 1
  /\ tracked \in BOOLEAN
  /\ test_markers = <<>>
  /\ test_name = <<>>
  /\ outcome = "running"
  /\ idx = 1
  /\ deleted_resource_types = {}
  /\ to_purge = {}
  /\ issued = <<>>
  /\ answered = <<>>
  /\ raised = FALSE
  /\ nops = 0
  /\ made = {}
  /\ last = NoCall
  /\ submitted = {}
  /\ streak = NoStreak
  /\ budget = MaxCalls
  /\ applied = NoApplication

ClientNext ==
  \/ \E r \in ClientResources, env \in CreateEnvs : Create(r, env)
  \/ \E r \in ClientResources, n \in {NoId, 1}, v \in {NoVersion, 1}, env \in UpdateEnvs :
        Update(IF n = NoId \/ ~HasKey(r, "resourceType") \/ r.resourceType = "Bundle"
               THEN r ELSE WithId(r, n), v, env)
  \/ \E r \in ClientResources, q \in {byFamilyOrder, byEitherFamily}, env \in BadEnvs :
        ConditionalCreate(r, q, env)
  \/ \E r \in ClientResources, q \in {byFamilyOrder, byEitherFamily}, env \in BadEnvs :
        ConditionalUpdate(r, q, env)
  \/ \E q \in {byFamilyOrder, byEitherFamily}, env \in DeleteEnvs :
        ConditionalDelete("Patient", q, env)
  \/ \E n \in {1, nonexistent_id} : Delete("Patient", n)
  \/ \E n \in {1, nonexistent_id} : Read("Patient", n)
  \/ \E v \in {1, nonexistent_version} : Vread("Patient", 1, v)
  \/ \E t \in Types, q \in ClientParams : Search(t, q)
  \/ \E t \in {NoType, "Patient"}, n \in {NoId, 1}, q \in {NoParams, byCount} :
        History(t, n, q)
  \/ \E q \in {NoParams, byCount} : TypeHistory("Patient", q)
  \/ \E q \in {NoParams, byCount} : SystemHistory(q)

ClientSpec == ClientInit /\ [][ClientNext]_vars

(***************************************************************************)
(* FHIRResourceGenerator (src/fixtures/resource_generators.py) at the      *)
(* level of the dictionaries it returns.  A field's value is a text, piece *)
(* by piece; what faker, uuid4() and now() give a call is its draw.        *)
(***************************************************************************)
genders == <<"male", "female", "other", "unknown">>

\* dict.dict_update(overrides)
dict_update(defaults, overrides) ==
  [k \in DOMAIN defaults \cup DOMAIN overrides |->
     IF k \in DOMAIN overrides THEN overrides[k] ELSE defaults[k]]

NoOverrides == [k \in {} |-> <<>>]

Draw(who, gender) ==
  [identifier |-> <<"id-", who>>, name |-> <<"name-", who>>, gender |-> <<gender>>,
   birthDate |-> <<"1980-01-01">>, address |-> <<"address-", who>>,
   telecom |-> <<"phone-", who>>, now |-> <<"now-", who>>, value |-> <<"80">>]

Draws == {Draw("a", genders[1]), Draw("b", genders[1]), Draw("b", genders[3])}

generate_patient(overrides, fake) ==
  dict_update([resourceType |-> <<"Patient">>, identifier |-> fake.identifier,
          name |-> fake.name, gender |-> fake.gender, birthDate |-> fake.birthDate,
          address |-> fake.address, telecom |-> fake.telecom, active |-> <<"True">>],
         overrides)

generate_practitioner(overrides, fake) ==
  dict_update([resourceType |-> <<"Practitioner">>, identifier |-> fake.identifier,
          name |-> fake.name, telecom |-> fake.telecom, address |-> fake.address,
          gender |-> fake.gender, active |-> <<"True">>, qualification |-> <<"MD">>],
         overrides)

\* The parameters generate_observation names; a keyword argument with one of
\* these names is bound to the parameter and is no part of **overrides.
ObservationParameters ==
  {"patient_ref", "code_system", "code", "code_display", "value_quantity",
   "value_codeable_concept", "value_string"}

Argument(kwargs, name, default) == IF name \in DOMAIN kwargs THEN kwargs[name] ELSE default

Rest(kwargs, named) == [k \in DOMAIN kwargs \ named |-> kwargs[k]]

\* resource_generators.py, lines 201-214: the one value of the observation.
ObservationValue(kwargs, fake) ==
  IF "value_codeable_concept" \in DOMAIN kwargs
  THEN [valueCodeableConcept |-> kwargs["value_codeable_concept"]]
  ELSE IF "value_string" \in DOMAIN kwargs THEN [valueString |-> kwargs["value_string"]]
  ELSE IF "value_quantity" \in DOMAIN kwargs
  THEN [valueQuantity |-> kwargs["value_quantity"]]
  ELSE [valueQuantity |-> fake.value \o <<"beats/minute">>]

generate_observation(kwargs, fake) ==
  dict_update(dict_update([resourceType |-> <<"Observation">>, status |-> <<"final">>,
                 category |-> <<"vital-signs">>,
                 code |-> Argument(kwargs, "code_system", <<"http://loinc.org">>)
                            \o Argument(kwargs, "code", <<"8867-4">>)
                            \o Argument(kwargs, "code_display", <<"Heart rate">>),
                 subject |-> Argument(kwargs, "patient_ref", <<"Patient/">> \o fake.identifier),
                 effectiveDateTime |-> fake.now],
                ObservationValue(kwargs, fake)),
         Rest(kwargs, ObservationParameters))

\* A call that raises gives no value.
Raise(exception) == [raised |-> exception, value |-> <<>>]
Return(value) == [raised |-> "", value |-> <<value>>]

\* resource_generators.py, lines 268-275: generate_patient(gender=...,
\* **common_overrides) raises TypeError when common_overrides has a gender
\* too (one keyword argument given twice).
generate_patient_batch(count, common_overrides, fakes) ==
  IF count > 0 /\ "gender" \in DOMAIN common_overrides THEN Raise("TypeError")
  ELSE Return([i \in 1..count |->
                 generate_patient(dict_update([gender |-> <<genders[((i - 1) % Len(genders)) + 1]>>],
                                         common_overrides), fakes[i])])

(***************************************************************************)
(* What the assertions read of a response.                                 *)
(***************************************************************************)
\* key in d
Has(d, key) == key \in DOMAIN d.map

\* d.get(key, default)
get(d, key, default) == IF Has(d, key) THEN d.map[key] ELSE default

\* A requests.Response: status_code, headers, and the body (text, and what
\* json() decodes it to).
Response(status_code, headers, body) ==
  [status_code |-> status_code, headers |-> headers, body |-> body]

(***************************************************************************)
(* FHIRAssertions (src/utils/assertions.py).  An assertion passes, with    *)
(* the value it returns if it returns one, or raises; a message says which *)
(* text it has, which values it names, and whether the OperationOutcome's  *)
(* diagnostics and the response's body are part of it.                     *)
(***************************************************************************)
Message(text, names, diagnostics, response) ==
  [text |-> text, names |-> names, diagnostics |-> diagnostics, response |-> response]

NoMessage == Message("", <<>>, <<>>, <<>>)

Pass(value) == [passed |-> TRUE, value |-> value, raised |-> "", message |-> NoMessage]

Fail(exception, message) ==
  [passed |-> FALSE, value |-> <<>>, raised |-> exception, message |-> message]

\* assertions.py, lines 15-22: the diagnostics of the first issue of an
\* OperationOutcome; any exception on the way is swallowed.
Diagnostics(body) ==
  IF body.kind = "dict" /\ get(body, "resourceType", NotJson) = Str("OperationOutcome")
       /\ Has(body, "issue")
       /\ body.map.issue.kind = "list" /\ body.map.issue.elems # <<>>
       /\ body.map.issue.elems[1].kind = "dict"
  THEN <<get(body.map.issue.elems[1], "diagnostics", Str("No details"))>>
  ELSE <<>>

assert_status_code(response, expected, message) ==
  IF response.status_code = expected THEN Pass(<<>>)
  ELSE Fail("AssertionError",
            Message(message, <<>>, Diagnostics(response.body), <<response.body>>))

\* resource = response.json(); resource['resourceType'] == expected, with the
\* exceptions json() and the subscript raise.
IsResourceType(body, expected, message) ==
  IF body.kind = "none" THEN Fail("JSONDecodeError", NoMessage)
  ELSE IF body.kind # "dict" THEN Fail("TypeError", NoMessage)
  ELSE IF ~Has(body, "resourceType") THEN Fail("KeyError", NoMessage)
  ELSE IF body.map.resourceType # Str(expected)
  THEN Fail("AssertionError", Message(message, <<>>, <<>>, <<>>))
  ELSE Pass(<<body>>)

\* return response.json()
Decoded(body) ==
  IF body.kind = "none" THEN Fail("JSONDecodeError", NoMessage) ELSE Pass(<<body>>)

assert_created(response, resource_type) ==
  IF ~assert_status_code(response, 201, "creation failed").passed
  THEN assert_status_code(response, 201, "creation failed")
  ELSE IF "Location" \notin response.headers
  THEN Fail("AssertionError",
            Message("Location header missing from create response", <<>>, <<>>, <<>>))
  ELSE Decoded(response.body)

assert_read_success(response, resource_type) ==
  IF ~assert_status_code(response, 200, "read failed").passed
  THEN assert_status_code(response, 200, "read failed")
  ELSE IsResourceType(response.body, resource_type, "Expected resource type")

assert_updated(response, resource_type) ==
  IF ~assert_status_code(response, 200, "update failed").passed
  THEN assert_status_code(response, 200, "update failed")
  ELSE Decoded(response.body)

assert_deleted(response) ==
  IF response.status_code \in {200, 204} THEN Pass(<<>>)
  ELSE Fail("AssertionError", Message("Expected 200 or 204 for delete", <<>>, <<>>, <<>>))

\* The value an assertion without a return statement returns.
ReturnsNone(result) == IF result.passed THEN Pass(<<>>) ELSE result

\* Variant of assert_not_found: the status alone is looked at.
assert_not_found_by_status(response) ==
  IF response.status_code \in {404, 410} THEN Pass(<<>>)
  ELSE Fail("AssertionError",
            Message("Expected 404 Not Found or 410 Gone", <<>>, <<>>, <<>>))

assert_not_found(response) ==
  IF response.status_code \notin {404, 410}
  THEN Fail("AssertionError",
            Message("Expected 404 Not Found or 410 Gone", <<>>, <<>>, <<>>))
  ELSE ReturnsNone(IsResourceType(response.body, "OperationOutcome",
                                  "Expected OperationOutcome for 404/410"))

assert_bad_request(response) ==
  IF ~assert_status_code(response, 400, "Expected 400 Bad Request").passed
  THEN assert_status_code(response, 400, "Expected 400 Bad Request")
  ELSE ReturnsNone(IsResourceType(response.body, "OperationOutcome",
                                  "Expected OperationOutcome for 400"))

assert_conflict(response) ==
  IF response.status_code \in {409, 412} THEN Pass(<<>>)
  ELSE Fail("AssertionError", Message("Expected 409 or 412 for conflict", <<>>, <<>>, <<>>))

\* assertions.py, lines 92-96: the entry is a primary match (its search.mode
\* is "match" or it has none) whose resource is not of the expected type.
WrongMatch(entry, resource_type) ==
  /\ get(get(entry, "search", Dict(<<>>)), "mode", Str("match")) = Str("match")
  /\ get(get(entry, "resource", Dict(<<>>)), "resourceType", NotJson) # Str(resource_type)

\* Variant of assert_bundle: entries are compared whatever their search.mode.
AllEntriesChecks(bundle, resource_type) ==
  IF ~Has(bundle, "type")
  THEN Fail("AssertionError", Message("Bundle missing type field", <<>>, <<>>, <<>>))
  ELSE IF ~(Has(bundle, "entry") \/ get(bundle, "total", Num(0)) = Num(0))
  THEN Fail("AssertionError", Message("Bundle missing entry field", <<>>, <<>>, <<>>))
  ELSE IF resource_type # "" /\ Has(bundle, "entry")
            /\ \E i \in DOMAIN bundle.map.entry.elems :
                 get(get(bundle.map.entry.elems[i], "resource", Dict(<<>>)),
                     "resourceType", NotJson) # Str(resource_type)
  THEN Fail("AssertionError", Message("Expected resource type in bundle", <<>>, <<>>, <<>>))
  ELSE Pass(<<bundle>>)

\* assertions.py, lines 84-98, for a body that is a Bundle.
BundleChecks(bundle, resource_type) ==
  IF ~Has(bundle, "type")
  THEN Fail("AssertionError", Message("Bundle missing type field", <<>>, <<>>, <<>>))
  ELSE IF ~(Has(bundle, "entry") \/ get(bundle, "total", Num(0)) = Num(0))
  THEN Fail("AssertionError", Message("Bundle missing entry field", <<>>, <<>>, <<>>))
  ELSE IF resource_type # "" /\ Has(bundle, "entry")
            /\ \E i \in DOMAIN bundle.map.entry.elems :
                 WrongMatch(bundle.map.entry.elems[i], resource_type)
  THEN Fail("AssertionError", Message("Expected resource type in bundle", <<>>, <<>>, <<>>))
  ELSE Pass(<<bundle>>)

assert_bundle(response, resource_type) ==
  IF ~assert_status_code(response, 200, "Bundle search failed").passed
  THEN assert_status_code(response, 200, "Bundle search failed")
  ELSE IF ~IsResourceType(response.body, "Bundle", "Expected Bundle").passed
  THEN IsResourceType(response.body, "Bundle", "Expected Bundle")
  ELSE BundleChecks(response.body, resource_type)

\* str.isdigit() and int() of the segments of a field path.
Digits == {"0", "1"}
isdigit(part) == part \in Digits
int(part) == IF part = "0" THEN 0 ELSE 1

\* assertions.py, lines 125-135: obj after the parts, or the failure at the
\* first part that does not resolve.  The path is given part by part
\* (field_path.split('.')); a Python index i is position i + 1 here.
RECURSIVE Walk(_, _)
Walk(obj, parts) ==
  IF parts = <<>> THEN Pass(<<obj>>)
  ELSE IF isdigit(Head(parts))
  THEN IF obj.kind = "list" /\ Len(obj.elems) > int(Head(parts))
       THEN Walk(obj.elems[int(Head(parts)) + 1], Tail(parts))
       ELSE Fail("AssertionError",
                 Message("array index out of bounds", <<Num(int(Head(parts)))>>, <<>>, <<>>))
  ELSE IF obj.kind = "dict" /\ Has(obj, Head(parts))
       THEN Walk(obj.map[Head(parts)], Tail(parts))
       ELSE Fail("AssertionError", Message("missing", <<Str(Head(parts))>>, <<>>, <<>>))

\* Variant of assert_resource_has_field: every part is looked up as a key.
WalkKeys(resource, field_path) ==
  IF field_path = <<>> THEN Pass(<<>>)
  ELSE IF resource.kind = "dict" /\ Has(resource, Head(field_path))
  THEN ReturnsNone(Walk(resource.map[Head(field_path)], Tail(field_path)))
  ELSE Fail("AssertionError", Message("missing", <<Str(Head(field_path))>>, <<>>, <<>>))

assert_resource_has_field(resource, field_path) == ReturnsNone(Walk(resource, field_path))

assert_resource_field_equals(resource, field_path, expected_value) ==
  IF ~assert_resource_has_field(resource, field_path).passed
  THEN assert_resource_has_field(resource, field_path)
  ELSE IF Walk(resource, field_path).value[1] # expected_value
  THEN Fail("AssertionError",
            Message("Expected field value", <<expected_value>>, <<>>, <<>>))
  ELSE Pass(<<>>)

(***************************************************************************)
(* The library alone: a test calls one assertion on a response, or one     *)
(* generator.  These functions keep no state, so a behaviour is one call.  *)
(***************************************************************************)
MaxBatch == 5

Statuses == {200, 201, 204, 400, 404, 410, 412, 500}

Resource(resource_type) == Dict([resourceType |-> Str(resource_type), id |-> Str("1")])

OperationOutcomes ==
  {Dict([resourceType |-> Str("OperationOutcome")]),
   Dict([resourceType |-> Str("OperationOutcome"), issue |-> List(<<>>)]),
   Dict([resourceType |-> Str("OperationOutcome"),
         issue |-> List(<<Dict([severity |-> Str("error")])>>)]),
   Dict([resourceType |-> Str("OperationOutcome"),
         issue |-> List(<<Dict([severity |-> Str("error"),
                                diagnostics |-> Str("Resource not found")])>>)])}

\* An entry of a searchset: modes is <<>> for an entry without search.mode.
BundleEntry(modes, resource_type) ==
  IF modes = <<>> THEN Dict([resource |-> Resource(resource_type)])
  ELSE Dict([search |-> Dict([mode |-> Str(modes[1])]), resource |-> Resource(resource_type)])

BundleEntries ==
  {BundleEntry(m, t) : m \in {<<>>, <<"match">>, <<"include">>}, t \in {"Patient", "Observation"}}

SearchBundles ==
  {Dict([resourceType |-> Str("Bundle"), type |-> Str("searchset"), total |-> Num(Len(es)),
         entry |-> List(es)]) : es \in UNION {[1..n -> BundleEntries] : n \in 0..2}}
    \cup {Dict([resourceType |-> Str("Bundle"), total |-> Num(0), entry |-> List(<<>>)]),
          Dict([resourceType |-> Str("Bundle"), type |-> Str("searchset"), total |-> Num(0)]),
          Dict([resourceType |-> Str("Bundle"), type |-> Str("searchset"), total |-> Num(1)]),
          Dict([resourceType |-> Str("Bundle"), type |-> Str("searchset")])}

Bodies ==
  {NotJson, List(<<>>), Resource("Patient"), Resource("Observation"), Dict([id |-> Str("1")])}
    \cup OperationOutcomes \cup SearchBundles

Responses ==
  {Response(c, h, b) : c \in Statuses, h \in {{}, {"Location"}}, b \in Bodies}

\* Resources whose fields are asked for.
ResourcesWithFields ==
  {Dict([resourceType |-> Str("Patient"),
         name |-> List(<<Dict([family |-> Str("Smith")])>>),
         meta |-> Dict([versionId |-> Str("1")])]),
   Dict([resourceType |-> Str("Patient"), name |-> List(<<>>)]),
   Dict([resourceType |-> Str("Patient"),
         name |-> Dict([family |-> Str("Smith")]),
         meta |-> List(<<Dict([versionId |-> Str("1")]), Str("1")>>)])}

Parts == {"name", "meta", "family", "versionId"} \cup Digits

FieldPaths == UNION {[1..n -> Parts] : n \in 1..3}

PatientOverrides ==
  {NoOverrides, [active |-> <<"False">>], [gender |-> <<"other">>],
   [name |-> <<"Smith">>, managingOrganization |-> <<"Organization/1">>]}

ObservationKeywords ==
  {NoOverrides, [status |-> <<"preliminary">>], [code |-> <<"1234-5">>],
   [value_string |-> <<"high">>], [subject |-> <<"Patient/1">>]}

LibraryInit ==
  /\ ScenarioInit

\* The inputs of a call, while no call has been made.
Callable(inputs) == IF applied = NoApplication THEN inputs ELSE {}

LibraryFrame ==
  UNCHANGED <<test_name, store, created_resources, recorded_by, pc, test_no, tracked,
              test_markers, outcome, idx, deleted_resource_types, to_purge, issued,
              answered, raised, nops, made, last, submitted, streak, budget>>

AssertStatusCode(response, expected) ==
  /\ applied' = Application("assert_status_code", <<response, expected>>,
                             assert_status_code(response, expected, "Expected status"))
  /\ LibraryFrame

AssertCreated(response, resource_type) ==
  /\ applied' = Application("assert_created", <<response, resource_type>>,
                             assert_created(response, resource_type))
  /\ LibraryFrame

AssertReadSuccess(response, resource_type) ==
  /\ applied' = Application("assert_read_success", <<response, resource_type>>,
                             assert_read_success(response, resource_type))
  /\ LibraryFrame

AssertUpdated(response, resource_type) ==
  /\ applied' = Application("assert_updated", <<response, resource_type>>,
                             assert_updated(response, resource_type))
  /\ LibraryFrame

AssertDeleted(response) ==
  /\ applied' = Application("assert_deleted", <<response>>, assert_deleted(response))
  /\ LibraryFrame

AssertNotFound(response) ==
  /\ applied' = Application("assert_not_found", <<response>>, assert_not_found(response))
  /\ LibraryFrame

AssertBadRequest(response) ==
  /\ applied' = Application("assert_bad_request", <<response>>, assert_bad_request(response))
  /\ LibraryFrame

AssertConflict(response) ==
  /\ applied' = Application("assert_conflict", <<response>>, assert_conflict(response))
  /\ LibraryFrame

AssertBundle(response, resource_type) ==
  /\ applied' = Application("assert_bundle", <<response, resource_type>>,
                             assert_bundle(response, resource_type))
  /\ LibraryFrame

AssertResourceHasField(resource, field_path) ==
  /\ applied' = Application("assert_resource_has_field", <<resource, field_path>>,
                             assert_resource_has_field(resource, field_path))
  /\ LibraryFrame

AssertResourceFieldEquals(resource, field_path, expected_value) ==
  /\ applied' = Application("assert_resource_field_equals", <<resource, field_path, expected_value>>,
                             assert_resource_field_equals(resource, field_path, expected_value))
  /\ LibraryFrame

GeneratePatient(overrides, fake) ==
  /\ applied' = Application("generate_patient", <<overrides, fake>>,
                             Return(generate_patient(overrides, fake)))
  /\ LibraryFrame

GeneratePractitioner(overrides, fake) ==
  /\ applied' = Application("generate_practitioner", <<overrides, fake>>,
                             Return(generate_practitioner(overrides, fake)))
  /\ LibraryFrame

GenerateObservation(kwargs, fake) ==
  /\ applied' = Application("generate_observation", <<kwargs, fake>>,
                             Return(generate_observation(kwargs, fake)))
  /\ LibraryFrame

GenerateInvalidPatient(issue) ==
  /\ applied' = Application("generate_invalid_patient", <<issue>>,
                             Return(generate_invalid_patient(issue)))
  /\ LibraryFrame

GeneratePatientBatch(count, common_overrides, fakes) ==
  /\ applied' = Application("generate_patient_batch", <<count, common_overrides, fakes>>,
                             generate_patient_batch(count, common_overrides, fakes))
  /\ LibraryFrame

LibraryNext ==
  \/ \E r \in Callable(Responses), c \in {200, 201} : AssertStatusCode(r, c)
  \/ \E r \in Callable(Responses), t \in {"Patient", "Observation"} : AssertCreated(r, t)
  \/ \E r \in Callable(Responses), t \in {"Patient", "Observation"} : AssertReadSuccess(r, t)
  \/ \E r \in Callable(Responses), t \in {"Patient", "Observation"} : AssertUpdated(r, t)
  \/ \E r \in Callable(Responses) : AssertDeleted(r)
  \/ \E r \in Callable(Responses) : AssertNotFound(r)
  \/ \E r \in Callable(Responses) : AssertBadRequest(r)
  \/ \E r \in Callable(Responses) : AssertConflict(r)
  \/ \E r \in Callable(Responses), t \in {NoType, "Patient"} : AssertBundle(r, t)
  \/ \E r \in Callable(ResourcesWithFields), f \in FieldPaths : AssertResourceHasField(r, f)
  \/ \E r \in Callable(ResourcesWithFields), f \in FieldPaths, v \in {Str("Smith"), Str("1")} :
        AssertResourceFieldEquals(r, f, v)
  \/ \E o \in Callable(PatientOverrides), f \in Draws : GeneratePatient(o, f)
  \/ \E o \in Callable(PatientOverrides), f \in Draws : GeneratePractitioner(o, f)
  \/ \E k \in Callable(ObservationKeywords), f \in Draws : GenerateObservation(k, f)
  \/ \E i \in Callable(Issues) : GenerateInvalidPatient(i)
  \/ \E n \in Callable(0..MaxBatch), o \in PatientOverrides :
        \E fs \in [1..n -> Draws] : GeneratePatientBatch(n, o, fs)

LibrarySpec == LibraryInit /\ [][LibraryNext]_vars

(***************************************************************************)
(* Properties of the cleanup / isolation layer, checked under Spec.        *)
(***************************************************************************)
InTeardown == pc \in {"delete", "markers", "purge"}

\* The requests of teardown's first loop: a DELETE per ledger entry, in order.
DeletesOfLedger ==
  /\ Len(issued) >= Len(created_resources)
  /\ \A i \in DOMAIN created_resources :
       /\ issued[i].method = "DELETE"
       /\ issued[i].rtype = created_resources[i][1]
       /\ issued[i].id = created_resources[i][2]
       /\ issued[i].query = NoQuery

\* C1: after the test body, whether it passed or failed, teardown issues a
\* DELETE for every entry of the ledger, in order; a request that raises does
\* not keep the later entries from being deleted, and no step of teardown
\* changes the outcome of the test.
C1_TeardownDeletesEveryEntry ==
  /\ [](pc \in {"markers", "purge"} => DeletesOfLedger)
  /\ [](pc = "delete" => Len(issued) = idx - 1)
  /\ [][InTeardown => outcome' = outcome]_vars

\* A teardown in which a delete raised, over a ledger of several entries, of
\* a test that had passed.
C1_Witness ==
  /\ pc = "markers" /\ raised /\ outcome = "passed"
  /\ Len(created_resources) >= 2
  /\ DeletesOfLedger

\* C2 (as the specification states it): every create answered with 200 or 201
\* appends the created resource's (resourceType, id) to the ledger, and a
\* create answered with any other status appends nothing.
C2_EveryCreateIsRecorded ==
  [][(pc = "body" /\ nops' = nops + 1 /\ last'.op = "create") =>
       IF last'.resp.status \in {200, 201}
       THEN created_resources' =
              Append(created_resources, <<last'.resp.resourceType, last'.resp.id>>)
       ELSE created_resources' = created_resources]_vars

\* C3: the ledger is empty when a test body starts and when teardown has
\* finished, and every entry in it was recorded by the test now running.
C3_LedgerIsPerTest ==
  /\ [](pc = "idle" => created_resources = <<>>)
  /\ [](pc = "body" /\ nops = 0 => created_resources = <<>>)
  /\ [](Len(recorded_by) = Len(created_resources))
  /\ [](\A i \in DOMAIN recorded_by : recorded_by[i] = test_no)
  /\ [][pc = "idle" /\ pc' = "body" => created_resources' = <<>>]_vars

\* A second test is in its body with entries of its own, after a first test
\* whose resources are still on the server.
C3_Witness ==
  /\ pc = "body" /\ test_no = 2
  /\ Len(created_resources) >= 1
  /\ Live(store) \ made # {}

\* C4 (as the specification states it): when teardown has finished and the
\* server answered every request of it, no resource the test created is
\* still on the server.
C4_NothingCreatedSurvives ==
  (pc = "idle" /\ test_no > 0 /\ ~raised) => made \cap Live(store) = {}

(***************************************************************************)
(* Properties of the scenarios against the server, checked under           *)
(* ScenarioSpec.                                                           *)
(***************************************************************************)
\* What a search on the condition reports.
Total(st, resource_type, params) ==
  Server(st, search(resource_type, params), PlainEnv).resp.total

\* The run of conditional creates behaved as one create followed by returns
\* of the resource created, and the condition has one match.
OneResourcePerCondition ==
  /\ streak.n = 1 => streak.status = 201 /\ streak.born = 1
  /\ streak.n > 1 => streak.status = 200 /\ streak.id = streak.first /\ streak.born = 0
  /\ Total(store, streak.type, streak.params) = 1

\* C5 (as the specification states it): starting from zero matches, of any
\* number of conditional creates with one condition and no other write in
\* between, the first returns 201 and creates a resource, every later one
\* returns 200 with the same id and creates nothing, and a search on the
\* condition reports exactly one match.
C5_ConditionalCreateUnique == streak.n >= 1 => OneResourcePerCondition

\* C5 (amended): the same, for calls that each submit a valid resource which
\* itself satisfies the condition.
C5_ConditionalCreateUniqueWhenMatching ==
  (streak.n >= 1 /\ streak.fits) => OneResourcePerCondition

\* The second conditional create of a matching resource returned the first's.
C5_Witness ==
  /\ streak.n = 2 /\ streak.fits
  /\ streak.status = 200 /\ streak.id = streak.first /\ streak.born = 0
  /\ last.op = "conditional_create"

\* C6: a conditional create whose condition matches more than one existing
\* resource is answered 412 and creates no resource.
C6_MultipleMatchesPreconditionFailed ==
  [][(nops' = nops + 1 /\ last'.op = "conditional_create"
        /\ Total(store, last'.args[1].resourceType, last'.args[2]) > 1) =>
       (last'.resp.status = 412 /\ store' = store /\ Born(store, store') = {})]_vars

\* A conditional create was answered 412 with two resources matching.
C6_Witness ==
  /\ last.op = "conditional_create" /\ last.resp.status = 412
  /\ Total(store, last.args[1].resourceType, last.args[2]) = 2

\* The entries of a bundle that write, by whether the server can accept them.
Writes(b) == {i \in DOMAIN b.entry : b.entry[i].method \in {"POST", "PUT"}}
InvalidEntries(b) == {i \in Writes(b) : ~b.entry[i].resource.valid}
ValidEntries(b) == {i \in Writes(b) : b.entry[i].resource.valid}
FailingEntries(b) ==
  InvalidEntries(b) \cup {i \in DOMAIN b.entry : b.entry[i].method = "GET"
                                                  /\ b.entry[i].id = nonexistent_id}

\* The step posts bundle b, by client.create or by client.session.post.
Posts(b) ==
  /\ nops' = nops + 1
  /\ last'.op \in {"create", "session.post"}
  /\ last'.args[1] = b

\* The transactions with an invalid entry among valid ones: the scenario of
\* test_transaction_rollback_on_error and every other such bundle.
RollbackScenarios ==
  {transaction_rollback_on_error}
    \cup {b \in Bundles : b.type = "transaction" /\ InvalidEntries(b) # {}
                                                  /\ ValidEntries(b) # {}}

\* C7: a transaction bundle with an invalid entry among valid entries is
\* answered 400 or 422 and persists none of its entries: every search
\* returns the count it returned before the transaction.
C7_TransactionAtomicity ==
  [][\A b \in RollbackScenarios : Posts(b) =>
       /\ last'.resp.status \in {400, 422}
       /\ store' = store
       /\ \A t \in Types, q \in SearchParams : Total(store', t, q) = Total(store, t, q)]_vars

\* The rollback scenario was posted where a Patient was stored already, and
\* was refused.
C7_Witness ==
  /\ last.op = "session.post" /\ last.args[1] = transaction_rollback_on_error
  /\ last.resp.status \in {400, 422}
  /\ Total(store, "Patient", <<>>) = 1
  /\ Total(store, "Patient", byFamilyRollback) = 0

\* The batches with a failing entry among valid ones: the scenario of
\* test_batch_partial_failure and every other such bundle.
PartialFailureScenarios ==
  {batch_partial_failure}
    \cup {b \in Bundles : b.type = "batch" /\ FailingEntries(b) # {}
                                            /\ ValidEntries(b) # {}}

\* C8: a batch bundle with a failing entry among valid entries is answered
\* 200 with one response entry per request entry, in request order: 201 and
\* the stored resource for a valid entry, also after the failing one, and a
\* 4xx status for the failing entry.
C8_BatchIndependence ==
  (last.op \in {"create", "session.post"} /\ last.args[1] \in PartialFailureScenarios) =>
    LET b == last.args[1]
        out == last.resp.entry
    IN /\ last.resp.status = 200
       /\ Len(out) = Len(b.entry)
       /\ \A i \in ValidEntries(b) :
            /\ out[i].status = 201
            /\ out[i].family = b.entry[i].resource.family
            /\ Server(store, read(out[i].resourceType, out[i].id), PlainEnv).resp.status = 200
       /\ \A i \in FailingEntries(b) : out[i].status \in 400..499
       /\ \A i, j \in ValidEntries(b) : i # j => out[i].id # out[j].id

\* client.create posted the partial-failure scenario: the entry after the
\* failing one was created.
C8_Witness ==
  /\ last.op = "create" /\ last.args[1] = batch_partial_failure
  /\ last.resp.status = 200
  /\ last.resp.entry[2].status = 404
  /\ last.resp.entry[3].status = 201

\* C9: the entries of a transaction are applied in bundle order, each seeing
\* the effects of the earlier ones: PUT V1, PUT V2 of the same id, GET of it
\* answers with the second PUT as an update of the first and the V2 content
\* in the third response entry.
C9_TransactionOrdering ==
  \A n \in Ids :
    (last.op \in {"create", "session.post"} /\ last.args[1] = transaction_ordering(n)) =>
      LET out == last.resp.entry
      IN /\ last.resp.status = 200
         /\ Len(out) = 3
         /\ out[1].status \in {200, 201} /\ out[1].given = <<"V1">>
         /\ out[2].status = 200 /\ out[2].versionId = out[1].versionId + 1
         /\ out[3].status = 200 /\ out[3].id = n
         /\ out[3].given = <<"V2">> /\ out[3].versionId = out[2].versionId

\* The ordering scenario was posted for a resource that existed before.
C9_Witness ==
  \E n \in Ids :
    /\ last.op = "session.post" /\ last.args[1] = transaction_ordering(n)
    /\ last.resp.status = 200
    /\ last.resp.entry[1].status = 200
    /\ last.resp.entry[3].given = <<"V2">>

\* The snapshots of one resource among those submitted.
SnapshotsOf(S, resource_type, resource_id) ==
  {x \in S : x[1] = resource_type /\ x[2] = resource_id}

\* C10: the versionId of every snapshot a write stores is greater than that
\* of every earlier snapshot of the resource; vread of a version answers 200
\* with exactly the content submitted at that version, whatever was written
\* since, and vread of a version that never existed answers 404.
C10_VersionsImmutable ==
  /\ [][\A x \in submitted' \ submitted :
          \A y \in SnapshotsOf(submitted, x[1], x[2]) : y[3] < x[3]]_vars
  /\ [](\A x, y \in submitted : (x[1] = y[1] /\ x[2] = y[2] /\ x[3] = y[3]) => x = y)
  /\ [](last.op = "vread" =>
          LET hit == {x \in SnapshotsOf(submitted, last.args[1], last.args[2]) :
                        x[3] = last.args[3]}
          IN IF hit = {} THEN last.resp.status = 404
             ELSE /\ last.resp.status = 200
                  /\ last.resp.versionId = last.args[3]
                  /\ \A x \in hit : x[4] = [family |-> last.resp.family,
                                             given |-> last.resp.given])

\* Version 1 was read back after an update had stored other content.
C10_Witness ==
  /\ last.op = "vread" /\ last.args[3] = 1 /\ last.resp.status = 200
  /\ \E x \in SnapshotsOf(submitted, last.args[1], last.args[2]) :
       /\ x[3] = 2
       /\ x[4].given # last.resp.given
(***************************************************************************)
(* Properties of the life of a resource, checked under LifecycleSpec.      *)
(***************************************************************************)
\* The step is a call of the client's operation op that may write.
Calls(op) == nops' = nops + 1 /\ last'.op = op

\* What the test knows of a resource: the snapshots acknowledged to it, and
\* the version of the latest.
Known(resource_type, resource_id) == SnapshotsOf(submitted, resource_type, resource_id)

LatestKnown(resource_type, resource_id) ==
  LET S == Known(resource_type, resource_id)
  IN IF S = {} THEN NoVersion ELSE (CHOOSE x \in S : \A y \in S : y[3] <= x[3])[3]

\* The resource was deleted and has not been written since.
Gone(st, resource_type, resource_id) ==
  /\ <<resource_type, resource_id>> \notin Live(st)
  /\ Known(resource_type, resource_id) # {}

C12_OptimisticLocking ==
  [][(Calls("update") /\ last'.args[2] # NoVersion /\ last'.args[1].valid
        /\ <<last'.args[1].resourceType, last'.args[1].id>> \in Live(store)) =>
       LET r == last'.args[1]
           current == LatestKnown(r.resourceType, r.id)
       IN IF last'.args[2] = current
          THEN /\ last'.resp.status = 200
               /\ last'.resp.versionId = current + 1
               /\ last'.resp.given = r.given
          ELSE /\ last'.resp.status \in {409, 412}
               /\ store' = store]_vars

\* An update with the ETag of version 1 was refused when version 2 was current.
C12_Witness ==
  /\ last.op = "update" /\ last.args[2] = 1
  /\ last.resp.status \in {409, 412}
  /\ LatestKnown(last.args[1].resourceType, last.args[1].id) = 2
  /\ <<last.args[1].resourceType, last.args[1].id>> \in Live(store)

LedgerDeletes == {i \in DOMAIN issued : issued[i].method = "DELETE" /\ issued[i].id # NoId}
MarkerDeletes == {i \in DOMAIN issued : issued[i].method = "DELETE" /\ issued[i].id = NoId}
Purges(resource_type) == {i \in DOMAIN issued : issued[i] = purge_url(resource_type)}
AllPurges == {i \in DOMAIN issued : issued[i].rtype = "purgeschema"}
Purgeable == Types \cup {"Bundle"}

TeardownOver == pc = "idle" /\ test_no > 0

\* The purges come after every delete, one per type of the set given and
\* none for another type.
PurgedExactly(touched) ==
  /\ \A i \in AllPurges, j \in LedgerDeletes \cup MarkerDeletes : j < i
  /\ \A t \in Purgeable : Cardinality(Purges(t)) = IF t \in touched THEN 1 ELSE 0
  /\ AllPurges = UNION {Purges(t) : t \in Purgeable}

MarkersByName ==
  (IF Contains(test_name, "transaction") THEN <<"TransactionTest", "ConditionalTxn">>
   ELSE <<>>)
    \o (IF Contains(test_name, "rollback") THEN <<"TestRollback">> ELSE <<>>)

\* The Patients a bundle would store, and whether a conditional delete by
\* one of the test's markers would find the Patient.
PatientsOf(bundle) ==
  {bundle.entry[i].resource : i \in {j \in Writes(bundle) : bundle.entry[j].rtype = "Patient"}}

Marked(patient) ==
  \E i \in DOMAIN test_markers :
    SrvSatisfies(SrvContent(patient),
                 urlencode(<< Param("family", <<test_markers[i]>>) >>, FALSE))

\* C15 (as the specification states it): teardown issues marker conditional
\* deletes only for tests recognised by name: for TransactionTest and
\* ConditionalTxn when the name contains "transaction", for TestRollback
\* when it contains "rollback", none otherwise; and these markers are the
\* family values such a test embeds in the Patients of the bundles it posts.
C15_MarkersMatchTestData ==
  /\ pc # "idle" => test_markers = MarkersByName
  /\ TeardownOver =>
       /\ Cardinality(MarkerDeletes) = Len(MarkersByName)
       /\ \A i \in MarkerDeletes :
            /\ issued[i].rtype = "Patient"
            /\ \E j \in DOMAIN MarkersByName :
                 issued[i].query = << <<"family", <<MarkersByName[j]>> >> >>
  /\ (pc = "body" /\ last.op = "session.post" /\ test_markers # <<>>) =>
       \A patient \in PatientsOf(last.args[1]) : patient.valid => Marked(patient)

(***************************************************************************)
(* Properties of the client's operations, checked under ClientSpec.        *)
(***************************************************************************)
\* C16 (as the specification states it): every operation of the client sends
\* exactly one HTTP request and hands the server's response to its caller
\* as it is, through the tracked create wrapper too.
C16_OneRequestResponseReturned ==
  last.op # "none" => last.sent = 1 /\ last.returned = last.resp

\* C17 (as the specification states it): whatever resource create, update or
\* conditional_create is given, the invalid ones of the generator among
\* them, no exception reaches the caller: the resource is sent and the
\* caller gets a response.
C17_ErrorsAreResponses ==
  last.op \in {"create", "update", "conditional_create"} =>
    /\ ~Raises(last.req)
    /\ last.req.json = last.args[1]
    /\ last.returned.raised = ""

\* C18: create posts a Bundle to the system root and any other resource to
\* the collection endpoint of its resourceType, and to no other URL; the
\* body of the request is the resource.
C18_CreateEndpoint ==
  (last.op = "create" /\ last.sent = 1) =>
    LET resource == last.args[1]
    IN /\ last.req.method = "POST"
       /\ last.req.rtype = "" <=> resource.resourceType = "Bundle"
       /\ resource.resourceType # "Bundle" => last.req.rtype = resource.resourceType
       /\ last.req.id = NoId /\ last.req.vid = NoVersion /\ ~last.req.history
       /\ last.req.query = NoQuery
       /\ last.req.json = resource

\* The empty batch of test_empty_bundle was posted to the root and answered
\* with an empty Bundle.
C18_Witness ==
  /\ last.op = "create" /\ last.args[1] = empty_bundle
  /\ last.req.rtype = "" /\ last.req.json = empty_bundle
  /\ last.resp.status = 200 /\ last.resp.resourceType = "Bundle" /\ last.resp.entry = <<>>

\* C19 (as the specification states it): history asks for the instance
\* history when type and id are given, for the type history when only the
\* type is, for the system history when neither is, and every identifier
\* given is part of the URL.
C19_HistoryEndpoint ==
  last.op = "history" =>
    LET resource_type == last.args[1]
        resource_id == last.args[2]
    IN /\ last.req.method = "GET" /\ last.req.history /\ last.req.vid = NoVersion
       /\ (resource_type # NoType /\ resource_id # NoId) =>
            (last.req.rtype = resource_type /\ last.req.id = resource_id)
       /\ (resource_type # NoType /\ resource_id = NoId) =>
            (last.req.rtype = resource_type /\ last.req.id = NoId)
       /\ (resource_type = NoType /\ resource_id = NoId) =>
            (last.req.rtype = NoType /\ last.req.id = NoId)
       /\ resource_type # NoType => last.req.rtype = resource_type
       /\ resource_id # NoId => last.req.id = resource_id

\* The number of key=value pairs the parameters before the i-th stand for.
RECURSIVE PairsBefore(_, _)
PairsBefore(params, i) ==
  IF i = 1 THEN 0 ELSE PairsBefore(params, i - 1) + Len(params[i - 1].vals)

\* C20: search sends a GET on the collection endpoint whose query holds, in
\* the order of the parameters, one key=value pair for a scalar and one pair
\* per element for a list, and no query at all without parameters.
C20_SearchRepeatedKeys ==
  last.op = "search" =>
    LET params == last.args[2]
        query == last.req.query
    IN /\ last.sent = 1
       /\ last.req.method = "GET" /\ last.req.rtype = last.args[1]
       /\ last.req.id = NoId /\ last.req.vid = NoVersion /\ ~last.req.history
       /\ Len(query) = PairsBefore(params, Len(params) + 1)
       /\ \A i \in DOMAIN params : \A j \in DOMAIN params[i].vals :
            query[PairsBefore(params, i) + j] = <<params[i].key, params[i].vals[j]>>
       /\ params = NoParams => query = NoQuery

\* A search with a scalar and a list of two values was answered: three pairs.
C20_Witness ==
  /\ last.op = "search" /\ last.args[2] = byGivenAndEitherFamily
  /\ Len(last.req.query) = 3
  /\ last.resp.status = 200

\* A create through the tracked client whose answer is 200 or 201 and carries
\* a resourceType and an id.
RecordedCreate(call) ==
  /\ tracked /\ call.op = "create"
  /\ call.resp.status \in {200, 201}
  /\ call.resp.resourceType # "" /\ call.resp.id # NoId

\* C29: within a test body the ledger changes only by a successful create
\* through the tracked client: every other operation of the client, whatever
\* its outcome, every create through an untracked client and every create
\* whose 200/201 answer lacks an id or a resourceType leave it as it is.
C29_LedgerFrame ==
  [][(pc = "body" /\ pc' = "body" /\ ~RecordedCreate(last')) =>
       created_resources' = created_resources]_vars

\* After a recorded create, the tracked client posted a Bundle that was
\* answered 200 without an id: the ledger still has its one entry.
C29_Witness ==
  /\ tracked /\ nops = 2 /\ Len(created_resources) = 1
  /\ last.op = "create" /\ last.resp.status = 200 /\ last.resp.parses
  /\ last.resp.resourceType = "Bundle" /\ last.resp.id = NoId

\* C30 (as the specification states it): the condition a conditional create,
\* update or delete sends, in the If-None-Exist header or in the URL's query,
\* is the query string search sends for the same parameters.
C30_ConditionsEncodedAsSearch ==
  (last.op \in {"conditional_create", "conditional_update", "conditional_delete"}
     /\ last.sent = 1) =>
    LET search_params == last.args[2]
        condition == IF last.op = "conditional_create" THEN last.req.ifNoneExist
                     ELSE last.req.query
    IN condition = search(last.req.rtype, search_params).query

(***************************************************************************)
(* Properties of the assertions and the generators, checked under          *)
(* LibrarySpec.                                                            *)
(***************************************************************************)
\* The body is a JSON object whose resourceType is the given one.
IsOfType(body, resource_type) ==
  body.kind = "dict" /\ Has(body, "resourceType") /\ body.map.resourceType = Str(resource_type)

\* C21 (as the specification states it): assert_created succeeds exactly when
\* the status is 201, there is a Location header and the body's resourceType
\* is the expected one, and then returns the decoded body.
C21_CreatedChecksTypeToo ==
  applied.fn = "assert_created" =>
    LET response == applied.args[1]
        resource_type == applied.args[2]
    IN /\ applied.result.passed <=>
            (/\ response.status_code = 201
             /\ "Location" \in response.headers
             /\ IsOfType(response.body, resource_type))
       /\ applied.result.passed => applied.result.value = <<response.body>>

C23_NotFoundAndBadRequest ==
  /\ applied.fn = "assert_not_found" =>
       (applied.result.passed <=>
          (/\ applied.args[1].status_code \in {404, 410}
           /\ IsOfType(applied.args[1].body, "OperationOutcome")))
  /\ applied.fn = "assert_bad_request" =>
       (applied.result.passed <=>
          (/\ applied.args[1].status_code = 400
           /\ IsOfType(applied.args[1].body, "OperationOutcome")))

\* assert_not_found passed on a 410 with an OperationOutcome.
C23_Witness ==
  /\ applied.fn = "assert_not_found" /\ applied.result.passed
  /\ applied.args[1].status_code = 410
  /\ applied.args[1].body \in OperationOutcomes

\* The part resolves in obj: a numeric part as an index into a sequence, any
\* other part as a key of a mapping.
Resolves(obj, part) ==
  IF part \in Digits THEN obj.kind = "list" /\ int(part) < Len(obj.elems)
  ELSE obj.kind = "dict" /\ part \in DOMAIN obj.map

\* The position in the path of the first part that does not resolve, from
\* position i on; 0 when every part resolves.
RECURSIVE FirstMissing(_, _, _)
FirstMissing(obj, path, i) ==
  IF i > Len(path) THEN 0
  ELSE IF ~Resolves(obj, path[i]) THEN i
  ELSE FirstMissing(IF path[i] \in Digits THEN obj.elems[int(path[i]) + 1] ELSE obj.map[path[i]],
                    path, i + 1)

\* The value at the end of a path that resolves.
RECURSIVE Resolved(_, _)
Resolved(obj, path) ==
  IF path = <<>> THEN obj
  ELSE Resolved(IF Head(path) \in Digits THEN obj.elems[int(Head(path)) + 1]
                ELSE obj.map[Head(path)], Tail(path))

\* C24: assert_resource_has_field succeeds exactly when every part of the
\* path resolves in turn, a numeric part as an index into a sequence and any
\* other part as a key of a mapping, and a failure names the first part that
\* is missing; assert_resource_field_equals succeeds exactly when the path
\* resolves and the value at its end equals the expected value.
C24_FieldPaths ==
  LET resource == applied.args[1]
      path == applied.args[2]
      missing == FirstMissing(resource, path, 1)
  IN /\ applied.fn = "assert_resource_has_field" =>
          /\ applied.result.passed <=> missing = 0
          /\ ~applied.result.passed =>
               /\ applied.result.raised = "AssertionError"
               /\ applied.result.message.names =
                    IF path[missing] \in Digits THEN <<Num(int(path[missing]))>>
                    ELSE <<Str(path[missing])>>
     /\ applied.fn = "assert_resource_field_equals" =>
          applied.result.passed <=>
            (missing = 0 /\ Resolved(resource, path) = applied.args[3])

\* name.0.family was found in a Patient with one name.
C24_Witness ==
  /\ applied.fn = "assert_resource_has_field"
  /\ applied.args[2] = <<"name", "0", "family">>
  /\ applied.args[1].map.name = List(<<Dict([family |-> Str("Smith")])>>)
  /\ applied.result.passed

\* The assertions that are given a response.
ResponseAssertions ==
  {"assert_status_code", "assert_created", "assert_read_success", "assert_updated",
   "assert_deleted", "assert_not_found", "assert_bad_request", "assert_conflict",
   "assert_bundle"}

\* The body is an OperationOutcome with at least one issue.
HasIssue(body) ==
  /\ IsOfType(body, "OperationOutcome")
  /\ Has(body, "issue") /\ body.map.issue.kind = "list" /\ body.map.issue.elems # <<>>

\* C25 (as the specification states it): an assertion that fails raises a
\* failure whose message includes the body of the response and, when the body
\* is an OperationOutcome with at least one issue, the diagnostics of its
\* first issue.
C25_FailuresCarryBodyAndDiagnostics ==
  (applied.fn \in ResponseAssertions /\ ~applied.result.passed) =>
    LET body == applied.args[1].body
    IN /\ applied.result.message.response = <<body>>
       /\ HasIssue(body) =>
            applied.result.message.diagnostics =
              <<get(body.map.issue.elems[1], "diagnostics", Str("No details"))>>

\* The resource is the shallow merge of the overrides over the defaults:
\* every override key maps to the override value, every default key is
\* still there.
MergedOver(resource, defaults, overrides) ==
  /\ \A k \in DOMAIN overrides : k \in DOMAIN resource /\ resource[k] = overrides[k]
  /\ DOMAIN defaults \subseteq DOMAIN resource

\* C26 (as the specification states it): every generator returns, without
\* an error, the shallow merge of its named overrides over its defaults, for
\* any field overridden, gender in a batch included.  The overrides of
\* generate_observation are its keyword arguments that name a field of the
\* Observation.
C26_OverridesMerged ==
  LET overrides == applied.args[1]
      fake == applied.args[2]
      result == applied.result
  IN /\ applied.fn = "generate_patient" =>
          /\ result.raised = ""
          /\ MergedOver(result.value[1], generate_patient(NoOverrides, fake), overrides)
     /\ applied.fn = "generate_practitioner" =>
          /\ result.raised = ""
          /\ MergedOver(result.value[1], generate_practitioner(NoOverrides, fake), overrides)
     /\ applied.fn = "generate_observation" =>
          /\ result.raised = ""
          /\ MergedOver(result.value[1], generate_observation(NoOverrides, fake),
                        Rest(overrides, ObservationParameters \ {"code"}))
     /\ applied.fn = "generate_patient_batch" =>
          /\ result.raised = ""
          /\ \A i \in 1..applied.args[1] :
               MergedOver(result.value[1][i],
                          generate_patient(NoOverrides, applied.args[3][i]), applied.args[2])

\* The constraints of a Patient the payload violates, by the selector that
\* names them: resourceType is required, birthDate is a string, gender is
\* one of the administrative genders.
Violations(payload) ==
  {issue \in Issues :
     \/ issue = "missing_required" /\ "resourceType" \notin DOMAIN payload
     \/ issue = "invalid_type" /\ "birthDate" \in DOMAIN payload
          /\ payload.birthDate.kind # "str"
     \/ issue = "invalid_value" /\ "gender" \in DOMAIN payload
          /\ \A i \in DOMAIN genders : payload.gender # Str(genders[i])}

\* C27: for each of the selectors missing_required, invalid_type and
\* invalid_value, generate_invalid_patient returns a payload that violates
\* the constraint the selector names and no other, and that is a Patient
\* unless resourceType is the field that is missing.
C27_ExactlyTheNamedIssue ==
  (applied.fn = "generate_invalid_patient"
     /\ applied.args[1] \in {"missing_required", "invalid_type", "invalid_value"}) =>
    LET payload == applied.result.value[1]
    IN /\ applied.result.raised = ""
       /\ Violations(payload) = {applied.args[1]}
       /\ applied.args[1] # "missing_required" => payload.resourceType = "Patient"

\* generate_invalid_patient("invalid_type") returned the Patient whose
\* birthDate is a number (test_create_invalid_patient_wrong_data_type).
C27_Witness ==
  /\ applied.fn = "generate_invalid_patient" /\ applied.args[1] = "invalid_type"
  /\ applied.result.value[1].birthDate = Num(12345)

\* The fields of a generated Patient whose values are drawn at random.
DrawnFields == {"identifier", "name", "birthDate", "address", "telecom"}

\* C28 (as the specification states it): generate_patient_batch(N) returns
\* exactly N Patients, any two of which differ in a field whose value is not
\* drawn at random.
C28_BatchOfDistinguishedPatients ==
  (applied.fn = "generate_patient_batch" /\ applied.args[2] = NoOverrides) =>
    LET patients == applied.result.value[1]
    IN /\ applied.result.raised = ""
       /\ Len(patients) = applied.args[1]
       /\ \A i \in DOMAIN patients : patients[i].resourceType = <<"Patient">>
       /\ \A i, j \in DOMAIN patients :
            i # j => \E k \in DOMAIN patients[i] \ DrawnFields : patients[i][k] # patients[j][k]

====
